---- MODULE Spec2Model ----
(***************************************************************************)
(* The resource model of gofigr (src/gofigr/models.py): entities bound to  *)
(* a REST service, lazy loading, create / fetch / save / delete, equality  *)
(* and linked-entity collections.  The modelled entity type is             *)
(* gf_Analysis; its collection is the `analyses` collection of a           *)
(* workspace.  The REST service itself is not part of the repository: it   *)
(* is modelled as a store that answers every request with the stored       *)
(* representation of the resource, or fails.                               *)
(***************************************************************************)
EXTENDS Integers, Sequences, FiniteSets, TLC

\* ------------------------------------------------------------------ bounds
NObj == 2       \* client-side entity objects
MaxId == 1      \* identifiers the service can hand out
MaxClock == 2   \* successful writes the service accepts (its clock)
MaxLen == 2     \* elements of a list value under conversion

Objs == 1..NObj
Ids == 1..MaxId

\* ------------------------------------------------------------------ values
\* Every value is a pair <<kind, n>>.
None == <<"none", 0>>          \* Python None / JSON null
Unset == <<"unset", 0>>        \* the instance has no such attribute
Id(n) == <<"id", n>>           \* an API ID string
Str(n) == <<"s", n>>           \* a plain string
Dt(n) == <<"dt", n>>           \* a datetime object
Iso(n) == <<"iso", n>>         \* a timestamp as the service writes it
DtStr(n) == <<"dtstr", n>>     \* str(datetime)
Obj(n) == <<"obj", n>>         \* a loaded entity object with api_id n (0: None)
Lazy(n) == <<"lazy", n>>       \* entity_type(api_id=n, lazy=True)
Bool(b) == <<"bool", IF b THEN 1 ELSE 0>>
Ref(o) == <<"ref", o>>         \* the client-side object o itself
List(n) == <<"list", n>>       \* a JSON list of n identifiers
Coll(n) == <<"coll", n>>       \* a LinkedEntityCollection of n lazy entities

WsIds == {1}
EmptyDict == [f \in {} |-> None]
Put(d, k, v) == [x \in (DOMAIN d) \cup {k} |-> IF x = k THEN v ELSE d[x]]

\* ------------------------------------------------------------------ fields
\* gf_Analysis.fields, one field of each kind that lifecycle and equality
\* depend on, in declaration order.
FieldOrder == <<"api_id", "name", "workspace", "figures", "updated_on">>
Fields == {FieldOrder[i] : i \in 1..Len(FieldOrder)}
\* A name gf_Analysis.fields does not declare, and the attribute names an
\* instance may hold.
Undeclared == {"notes"}
Names == Fields \cup Undeclared

Kind(f) ==
    CASE f = "updated_on" -> "timestamp"
      [] f = "workspace" -> "linked"
      [] f = "figures" -> "linked_many"
      [] OTHER -> "plain"

\* Field.derived: of gf_Analysis.fields only `figures` is declared derived=True.
Derived(f) == f = "figures"

\* Field.to_representation / Timestamp.to_representation /
\* LinkedEntityField.to_representation (many=False)
ToRepresentation(f, v) ==
    CASE Kind(f) = "timestamp" -> IF v = None THEN None ELSE DtStr(v[2])
      [] Kind(f) = "linked" ->
            IF v = None THEN None
            ELSE IF v[2] = 0 THEN None ELSE Id(v[2])
      [] Kind(f) = "linked_many" -> IF v = None THEN None ELSE List(v[2])
      [] OTHER -> v

\* Field.to_internal_value / Timestamp.to_internal_value /
\* LinkedEntityField.to_internal_value (many=False, prefetched=False, lazy=True)
ToInternalValue(f, w) ==
    CASE Kind(f) = "timestamp" -> IF w = None THEN None ELSE Dt(w[2])
      [] Kind(f) = "linked" -> IF w = None THEN Lazy(0) ELSE Lazy(w[2])
      [] Kind(f) = "linked_many" -> Coll(w[2])
      [] OTHER -> w

\* ------------------------------------------------------ field descriptors
\* The values of the descriptors' conversions. A list value is a pair
\* <<kind, s>> with s the sequence of its elements' numbers.
Ents(s) == <<"ents", s>>         \* a list or LinkedEntityCollection of entities, by api_id
IdList(s) == <<"ids", s>>        \* a JSON list of API IDs
Nested(n) == <<"nested", n>>     \* the nested Data entity n (with a payload)
Dict(n) == <<"dict", n>>         \* the JSON object of entity n
NestedList(s) == <<"nlist", s>>  \* a list of nested entities
DictList(s) == <<"dlist", s>>    \* a JSON list of JSON objects
JsonList(s) == <<"jlist", s>>    \* a JSON list of plain values

Elems == 1..MaxLen
SeqsUpTo(n) == UNION {[1..k -> Elems] : k \in 0..n}

FieldKinds == {"plain", "json", "timestamp", "linked", "linked_many",
               "linked_prefetched", "nested", "nested_many"}

\* The outcome of a conversion: the error raised ("none" when it returns)
\* and the value returned.
Conv(raised, val) == [raised |-> raised, val |-> val]

\* Field / JSONField / Timestamp / LinkedEntityField / NestedEntityField
\* .to_representation, by descriptor kind (sort_key=None).
FieldToRepresentation(k, v) ==
    CASE k \in {"plain", "json"} -> Conv("none", v)
      [] v = None -> Conv("none", None)
      [] k = "timestamp" -> Conv("none", DtStr(v[2]))
      [] k = "linked" -> Conv("none", IF v[2] = 0 THEN None ELSE Id(v[2]))
      [] k \in {"linked_many", "linked_prefetched"} -> Conv("none", IdList(v[2]))
      [] k = "nested" -> Conv("none", Dict(v[2]))
      [] k = "nested_many" -> Conv("none", DictList(v[2]))

\* Field / JSONField / Timestamp / LinkedEntityField / NestedEntityField
\* .to_internal_value, by descriptor kind. make_one(None) of a linked field
\* builds an entity without identifier; iterating None, `**obj` on a string
\* and from_json(None) raise.
FieldToInternalValue(k, w) ==
    CASE k \in {"plain", "json"} -> Conv("none", w)
      [] k = "timestamp" -> Conv("none", IF w = None THEN None ELSE Dt(w[2]))
      [] k = "linked" -> Conv("none", IF w = None THEN Lazy(0) ELSE Lazy(w[2]))
      [] k = "linked_many" ->
            IF w = None THEN Conv("TypeError", None) ELSE Conv("none", Ents(w[2]))
      [] k = "linked_prefetched" ->
            IF w = None THEN Conv("TypeError", None)
            ELSE IF w[1] = "ids" /\ w[2] # <<>> THEN Conv("TypeError", None)
            ELSE Conv("none", Ents(w[2]))
      [] k = "nested" ->
            IF w = None THEN Conv("AttributeError", None) ELSE Conv("none", Nested(w[2]))
      [] k = "nested_many" ->
            IF w = None THEN Conv("TypeError", None) ELSE Conv("none", NestedList(w[2]))

\* The values a field of kind k may hold.
ValidValues(k) ==
    {None} \cup
    CASE k = "plain" -> {Str(1), Str(2)} \cup {JsonList(s) : s \in SeqsUpTo(1)}
      [] k = "json" -> {Str(1), Dict(0), Dict(1)} \cup {JsonList(s) : s \in SeqsUpTo(1)}
      [] k = "timestamp" -> {Dt(n) : n \in 0..MaxLen}
      [] k = "linked" -> {Obj(n) : n \in Elems} \cup {Lazy(n) : n \in Elems}
      [] k \in {"linked_many", "linked_prefetched"} -> {Ents(s) : s \in SeqsUpTo(MaxLen)}
      [] k = "nested" -> {Nested(n) : n \in Elems}
      [] k = "nested_many" -> {NestedList(s) : s \in SeqsUpTo(MaxLen)}

\* Two values stand for the same thing: equal, or entities of the same
\* identifier (loaded or lazy).
Equivalent(v, w) ==
    \/ v = w
    \/ v[1] \in {"obj", "lazy"} /\ w[1] \in {"obj", "lazy"} /\ v[2] = w[2]

\* ------------------------------------------------------------ binary data
Text(t) == <<"text", t>>         \* the string t
Bytes(n) == <<"bytes", n>>       \* the byte string n
B64(n) == <<"b64", n>>           \* base-64 text of the byte string n

\* A metadata attribute: None, or a dict.
Meta(d) == [null |-> FALSE, d |-> d]
NullMeta == [null |-> TRUE, d |-> EmptyDict]

\* Data and its subclasses, and Data.FIELDS
DataClasses == {"Data", "ImageData", "CodeData", "TextData", "TableData"}
DataFields == {"api_id", "name", "type", "metadata", "data"}

\* DATA_TYPE of each class (DataType.IMAGE, ...)
DataTypeOf(cls) ==
    CASE cls = "ImageData" -> Text("image")
      [] cls = "CodeData" -> Text("code")
      [] cls = "TextData" -> Text("text")
      [] cls = "TableData" -> Text("dataframe")
      [] OTHER -> None

\* Data.specialized_types(): the class registered for a type tag, cls when
\* there is none (SPECIALIZED_TYPES.get(data['type'], cls)).
SpecializedType(tag, cls) ==
    IF \E c \in DataClasses : DataTypeOf(c) = tag
    THEN CHOOSE c \in DataClasses : DataTypeOf(c) = tag
    ELSE cls

\* The MetadataProxy attributes each class declares, with their defaults.
Proxies(cls) ==
    CASE cls = "ImageData" -> [is_watermarked |-> Bool(FALSE), format |-> None]
      [] cls = "CodeData" -> [language |-> None, format |-> None, encoding |-> Text("utf-8")]
      [] cls = "TextData" -> [encoding |-> Text("utf-8")]
      [] cls = "TableData" -> [format |-> None, encoding |-> Text("utf-8")]
      [] OTHER -> EmptyDict

\* What CodeData.__init__ and TableData.__init__ assign to self.format after
\* Data.__init__ has run.
AssignedFormat(cls) ==
    CASE cls = "CodeData" -> {Text("text")}
      [] cls = "TableData" -> {Text("pandas/csv")}
      [] OTHER -> {}

DataRes(raised, d) == [raised |-> raised, d |-> d]
NoEnt == [cls |-> "Data", api_id |-> None, name |-> None, type |-> None,
          metadata |-> NullMeta, data |-> None]

\* Data.__init__(**kwargs) followed by the subclass's own __init__ body.
DataInit(cls, kw) ==
    LET data == IF "data" \in DOMAIN kw THEN kw["data"] ELSE None
        type == IF "type" \in DOMAIN kw THEN kw["type"] ELSE DataTypeOf(cls)
        meta0 == IF "metadata" \in DOMAIN kw THEN kw["metadata"] ELSE Meta(EmptyDict)
        others == DOMAIN kw \ {"type", "metadata"}
        proxied == DOMAIN Proxies(cls)
        \* hasattr(self, name): a proxy's __get__ fails on a None metadata
        hasattr(n) == n \in proxied /\ ~meta0.null
        set == others \cap proxied
        meta1 == IF set = {} THEN meta0
                 ELSE Meta([k \in DOMAIN meta0.d \cup set |->
                              IF k \in set THEN kw[k] ELSE meta0.d[k]])
        meta2 == Meta([k \in DOMAIN meta1.d \cup proxied |->
                         IF k \in DOMAIN meta1.d THEN meta1.d[k] ELSE Proxies(cls)[k]])
        meta3 == IF proxied = {} THEN meta1
                 ELSE IF AssignedFormat(cls) = {} THEN meta2
                 ELSE Meta([meta2.d EXCEPT !["format"] = CHOOSE t \in AssignedFormat(cls) : TRUE])
    IN IF data # None /\ data[1] # "bytes" THEN DataRes("ValueError", NoEnt)
       ELSE IF \E n \in others : n \notin DataFields /\ ~hasattr(n)
       THEN DataRes("ValueError", NoEnt)
       ELSE IF proxied # {} /\ meta1.null THEN DataRes("TypeError", NoEnt)
       ELSE DataRes("none",
                    [cls |-> cls,
                     api_id |-> IF "api_id" \in DOMAIN kw THEN kw["api_id"] ELSE None,
                     name |-> IF "name" \in DOMAIN kw THEN kw["name"] ELSE None,
                     type |-> type, metadata |-> meta3, data |-> data])

\* base64.b64encode(...).decode('ascii') / base64.b64decode
B64Encode(b) == B64(b[2])
B64Decode(t) == Bytes(t[2])

\* Data.to_json
DataToJson(d) ==
    [api_id |-> d.api_id, name |-> d.name, type |-> d.type, metadata |-> d.metadata,
     data |-> IF d.data # None THEN B64Encode(d.data) ELSE None]

\* Data.from_json, called on class cls with the JSON object w.
DataFromJson(cls, w) ==
    LET get(n) == IF n \in DOMAIN w THEN w[n] ELSE None
        props == [n \in DataFields |->
                    CASE n = "data" -> IF "data" \in DOMAIN w THEN B64Decode(w["data"]) ELSE None
                      [] n = "metadata" -> IF "metadata" \in DOMAIN w THEN w["metadata"] ELSE NullMeta
                      [] OTHER -> get(n)]
    IN IF "data" \in DOMAIN w /\ w["data"] = None THEN DataRes("TypeError", NoEnt)
       ELSE IF "type" \notin DOMAIN w THEN DataRes("KeyError", NoEnt)
       ELSE DataInit(SpecializedType(w["type"], cls), props)

\* ------------------------------------------------------------------ state
VARIABLES
    objs,       \* objs[o]: the entity object o: alive, lazy, _has_data, attributes
    coll,       \* the LinkedEntityCollection: _entities, read_only
    srv,        \* the service's resources, by identifier
    nextId,     \* the next identifier the service assigns
    clock,      \* the service's clock: the number of writes it accepted
    srvOmits,   \* declared fields the service's representation does not carry
    call,       \* the last call: operation, outcome and the requests it sent
    probe,      \* a value under conversion: its kind, the stage reached, the result
    gf,         \* the GoFigr client: credentials and the request in progress
    disp,       \* the display trap: the global trap and the publish in progress
    proxy       \* the callback proxies and their polling threads

vars == <<objs, coll, srv, nextId, clock, srvOmits, call, probe, gf, disp, proxy>>

\* What the service stores per resource; the modelled analyses own no figures.
StoredFields == Fields \ {"api_id", "figures"}
Writable == {"name", "workspace"}
NoData == [f \in StoredFields |-> None]
NoRes == [exists |-> FALSE, data |-> NoData]

NoObj == [alive |-> FALSE, lazy |-> FALSE, has_data |-> FALSE,
          attrs |-> [f \in Names |-> Unset]]

\* ---------------------------------------------------------------- service
\* GoFigr._request: a response with the expected status, or an error that
\* depends on the status code.
\* A request is refused ("fail": the service answers 403 Forbidden) or let
\* through ("ok"); let through, it fails with another status when the resource
\* is missing or the service accepts no more writes.
TransportErrors == {"UnauthorizedError", "StatusError"}
Outcomes == {"ok", "fail"}

\* A request on the resource id itself (sub = "") or on a sub-resource of it.
Req(verb, id, silent, body) ==
    [verb |-> verb, id |-> id, sub |-> "", silent |-> silent, body |-> body]
SubReq(verb, id, sub, body) ==
    [verb |-> verb, id |-> id, sub |-> sub, silent |-> FALSE, body |-> body]

\* The JSON object the service answers with for resource id in store s.
Representation(s, id) ==
    [f \in Fields \ srvOmits |->
        IF f = "api_id" THEN Id(id)
        ELSE IF f = "figures" THEN List(0)
        ELSE s[id].data[f]]

\* What the service stores of a request body: timestamps are its own.
Accepts(body, f) == f \in Writable /\ f \notin srvOmits /\ f \in DOMAIN body

SrvPost(s, body) ==
    [s EXCEPT ![nextId] =
        [exists |-> TRUE,
         data |-> [f \in StoredFields |->
                     IF Accepts(body, f) THEN body[f]
                     ELSE None]]]

SrvPut(s, id, body) ==
    [s EXCEPT ![id].data =
        [f \in StoredFields |->
            IF f = "updated_on" THEN Iso(clock + 1)
            ELSE IF f \in Writable /\ f \notin srvOmits
                 THEN (IF f \in DOMAIN body THEN body[f] ELSE None)
            ELSE s[id].data[f]]]

SrvPatch(s, id, body) ==
    [s EXCEPT ![id].data =
        [f \in StoredFields |->
            IF f = "updated_on" THEN Iso(clock + 1)
            ELSE IF Accepts(body, f) THEN body[f]
            ELSE s[id].data[f]]]

\* The outcome of a request the transport was asked to make with outcome g.
Outcome(g, served) ==
    IF g = "fail" THEN "UnauthorizedError" ELSE IF served THEN "ok" ELSE "StatusError"
GetOutcome(id, g) == Outcome(g, srv[id].exists)
WriteOutcome(id, w) == Outcome(w, srv[id].exists /\ clock < MaxClock)
PostOutcome(w) == Outcome(w, nextId <= MaxId /\ clock < MaxClock)

\* ---------------------------------------------------------------- entity
\* The one element of a singleton set.
Only(S) == CHOOSE x \in S : TRUE

\* The result of a method: the object afterwards, the error raised ("none"
\* when it returns), the requests sent, the value returned, and the store.
Res(e, raised, reqs, ret) == [e |-> e, raised |-> raised, reqs |-> reqs, ret |-> ret]

\* _update_properties that keeps a value the instance already holds.
UpdateProperties_KeepLocal(e, props, parse) ==
    [e EXCEPT !.attrs =
        [f \in Names |->
            IF f \in Fields /\ f \in DOMAIN props /\ e.attrs[f] \in {None, Unset}
            THEN (IF parse THEN ToInternalValue(f, props[f]) ELSE props[f])
            ELSE e.attrs[f]]]

\* ModelMixin._update_properties: names that are no field are skipped.
UpdateProperties(e, props, parse) ==
    [e EXCEPT !.attrs =
        [f \in Names |->
            IF f \in Fields /\ f \in DOMAIN props
            THEN (IF parse THEN ToInternalValue(f, props[f]) ELSE props[f])
            ELSE e.attrs[f]]]

\* ModelMixin._check_api_id
CheckApiId(e) == e.attrs["api_id"] # None

\* fetch that marks the entity loaded before the GET has returned.
Fetch_LoadedFirst(e, g) ==
    IF ~CheckApiId(e) THEN Res(e, "ApiIdNone", <<>>, None)
    ELSE LET id == e.attrs["api_id"][2]
             rq == <<Req("GET", id, FALSE, EmptyDict)>>
             out == GetOutcome(id, g)
         IN IF out # "ok" THEN Res([e EXCEPT !.has_data = TRUE], out, rq, None)
            ELSE Res(UpdateProperties([e EXCEPT !.has_data = TRUE],
                                      Representation(srv, id), TRUE),
                     "none", rq, None)

\* ModelMixin.fetch
Fetch(e, g) ==
    IF ~CheckApiId(e) THEN Res(e, "ApiIdNone", <<>>, None)
    ELSE LET id == e.attrs["api_id"][2]
             rq == <<Req("GET", id, FALSE, EmptyDict)>>
             out == GetOutcome(id, g)
         IN IF out # "ok" THEN Res(e, out, rq, None)
            ELSE Res(UpdateProperties([e EXCEPT !.has_data = TRUE],
                                      Representation(srv, id), TRUE),
                     "none", rq, None)

\* __getattr__ that does not look at _has_data.
NeedsFetch_NoHasData(e, item) == item \in Fields /\ e.lazy

\* ModelMixin.__getattr__: whether a missing declared attribute is fetched.
NeedsFetch(e, item) == item \in Fields /\ e.lazy /\ ~e.has_data

\* getattr(obj, item): normal lookup first, then ModelMixin.__getattr__
GetAttr(e, item, g) ==
    IF item \in Names /\ e.attrs[item] # Unset THEN Res(e, "none", <<>>, e.attrs[item])
    ELSE IF ~NeedsFetch(e, item) THEN Res(e, "AttributeError", <<>>, None)
    ELSE LET r == Fetch(e, g)
         IN IF r.raised # "none" THEN r
            ELSE IF r.e.attrs[item] # Unset THEN Res(r.e, "none", r.reqs, r.e.attrs[item])
            ELSE Res(r.e, "AttributeError", r.reqs, None)

\* __setattr__ that fetches before a write of any attribute.
DoFetch_AnyName(e, key) == key # "api_id" /\ e.lazy /\ ~e.has_data

\* ModelMixin.__setattr__: whether the assignment fetches first.
DoFetch(e, key) == key # "api_id" /\ key \in Fields /\ e.lazy /\ ~e.has_data

\* __setattr__ that stores the value and fetches afterwards.
SetAttr_FetchLast(e, key, value, g) ==
    IF DoFetch(e, key)
    THEN Fetch([e EXCEPT !.attrs[key] = value], g)
    ELSE Res([e EXCEPT !.attrs[key] = value], "none", <<>>, None)

\* ModelMixin.__setattr__
SetAttr(e, key, value, g) ==
    IF DoFetch(e, key)
    THEN LET r == Fetch(e, g)
         IN IF r.raised # "none" THEN r
            ELSE Res([r.e EXCEPT !.attrs[key] = value], "none", r.reqs, None)
    ELSE Res([e EXCEPT !.attrs[key] = value], "none", <<>>, None)

\* ModelMixin.to_json, one field: getattr(self, name, None), where an
\* AttributeError yields None and any other error leaves to_json.
ToJsonField(st, f, g, include_derived) ==
    IF st.raised # "none" \/ (Derived(f) /\ ~include_derived) THEN st
    ELSE LET r == GetAttr(st.e, f, g)
         IN IF r.raised \notin {"none", "AttributeError"}
            THEN Res(r.e, r.raised, st.reqs \o r.reqs, st.ret)
            ELSE Res(r.e, "none", st.reqs \o r.reqs,
                     Put(st.ret, f, ToRepresentation(f, IF r.raised = "none" THEN r.ret ELSE None)))

\* ModelMixin.to_json: the fields in declaration order.
RECURSIVE ToJsonFold(_, _, _, _)
ToJsonFold(st, i, g, include_derived) ==
    IF i > Len(FieldOrder) THEN st
    ELSE Only({ToJsonFold(x, i + 1, g, include_derived) :
                 x \in {ToJsonField(st, FieldOrder[i], g, include_derived)}})

\* ModelMixin.to_json
ToJson(e, include_derived, include_none, g) ==
    LET drop(st) == IF st.raised # "none" \/ include_none THEN st
                    ELSE [st EXCEPT !.ret = [k \in {x \in DOMAIN st.ret : st.ret[x] # None} |-> st.ret[k]]]
    IN Only({drop(st) : st \in {ToJsonFold(Res(e, "none", <<>>, EmptyDict), 1, g, include_derived)}})

\* ModelMixin.__eq__ on the two representations
EqJson(repr1, repr2) ==
    IF DOMAIN repr1 # DOMAIN repr2 THEN FALSE
    ELSE \A k \in DOMAIN repr1 : Kind(k) # "timestamp" => repr1[k] = repr2[k]

\* The result of a method that writes: also the store, the next identifier
\* and the clock afterwards.
WRes(r, s, nid, clk) ==
    [e |-> r.e, raised |-> r.raised, reqs |-> r.reqs, ret |-> r.ret,
     s |-> s, nid |-> nid, clk |-> clk]
Same(r) == WRes(r, srv, nextId, clock)

\* create that does not absorb the response of its POST.
PostPath_NoAbsorb(e, g, w) ==
    LET out == PostOutcome(w)
        absorb(j) ==
            LET rq == j.reqs \o <<Req("POST", 0, FALSE, j.ret)>>
                s2 == SrvPost(srv, j.ret)
            IN IF j.raised # "none" THEN Same(Res(j.e, j.raised, j.reqs, None))
               ELSE IF out # "ok" THEN Same(Res(j.e, out, rq, None))
               ELSE WRes(Res(j.e, "none", rq, None), s2, nextId + 1, clock + 1)
    IN Only({absorb(j) : j \in {ToJson(e, FALSE, FALSE, g)}})

\* ModelMixin.create, once api_id is known to be None: POST, then absorb.
PostPath(e, g, w) ==
    LET out == PostOutcome(w)
        absorb(j) ==
            LET rq == j.reqs \o <<Req("POST", 0, FALSE, j.ret)>>
                s2 == SrvPost(srv, j.ret)
            IN IF j.raised # "none" THEN Same(Res(j.e, j.raised, j.reqs, None))
               ELSE IF out # "ok" THEN Same(Res(j.e, out, rq, None))
               ELSE WRes(Res(UpdateProperties(j.e, Representation(s2, nextId), TRUE),
                             "none", rq, None),
                         s2, nextId + 1, clock + 1)
    IN Only({absorb(j) : j \in {ToJson(e, FALSE, FALSE, g)}})

\* save that always replaces the resource.
SaveVerb_AlwaysPut(patch) == "PUT"

\* ModelMixin.save: the HTTP method it picks.
SaveVerb(patch) == IF patch THEN "PATCH" ELSE "PUT"

\* ModelMixin.save, once api_id is known to be set: PUT or PATCH, then absorb.
PutPath(e, patch, silent, g, w) ==
    LET id == e.attrs["api_id"][2]
        out == WriteOutcome(id, w)
        absorb(j) ==
            LET rq == j.reqs \o <<Req(SaveVerb(patch), id, silent, j.ret)>>
                s2 == IF SaveVerb(patch) = "PATCH" THEN SrvPatch(srv, id, j.ret)
                      ELSE SrvPut(srv, id, j.ret)
            IN IF j.raised # "none" THEN Same(Res(j.e, j.raised, j.reqs, None))
               ELSE IF out # "ok" THEN Same(Res(j.e, out, rq, None))
               ELSE WRes(Res(UpdateProperties(j.e, Representation(s2, id), TRUE),
                             "none", rq, None),
                         s2, nextId, clock + 1)
    IN Only({absorb(j) : j \in {ToJson(e, FALSE, FALSE, g)}})

\* ModelMixin.save
Save(e, create, patch, silent, g, w) ==
    IF e.attrs["api_id"] = None
    THEN (IF create THEN PostPath(e, g, w)
          ELSE Same(Res(e, "NotCreated", <<>>, None)))
    ELSE PutPath(e, patch, silent, g, w)

\* create that posts whether or not the entity has an identifier.
Create_AlwaysPosts(e, update, g, w) == PostPath(e, g, w)

\* ModelMixin.create
Create(e, update, g, w) ==
    IF e.attrs["api_id"] # None
    THEN (IF update THEN Save(e, FALSE, FALSE, FALSE, g, w)
          ELSE Same(Res(e, "AlreadyExists", <<>>, None)))
    ELSE PostPath(e, g, w)

\* ModelMixin.delete: kw is the `delete` keyword argument, "absent" when
\* not given.
\* A confirmation check that only looks for an explicit False.
Confirmed_UnlessFalse(kw) == kw # "false"

Confirmed(kw) == kw = "true"

\* A delete that forgets the identifier of the deleted resource.
Delete_ClearsId(e, kw, w) ==
    IF ~CheckApiId(e) THEN Same(Res(e, "ApiIdNone", <<>>, None))
    ELSE IF ~Confirmed(kw) THEN Same(Res(e, "NotConfirmed", <<>>, None))
    ELSE LET id == e.attrs["api_id"][2]
             rq == <<Req("DELETE", id, FALSE, EmptyDict)>>
             out == GetOutcome(id, w)
         IN IF out # "ok" THEN Same(Res(e, out, rq, None))
            ELSE WRes(Res([e EXCEPT !.attrs["api_id"] = None], "none", rq, None),
                      [srv EXCEPT ![id] = NoRes], nextId, clock)

Delete(e, kw, w) ==
    IF ~CheckApiId(e) THEN Same(Res(e, "ApiIdNone", <<>>, None))
    ELSE IF ~Confirmed(kw) THEN Same(Res(e, "NotConfirmed", <<>>, None))
    ELSE LET id == e.attrs["api_id"][2]
             rq == <<Req("DELETE", id, FALSE, EmptyDict)>>
             out == GetOutcome(id, w)
         IN IF out # "ok" THEN Same(Res(e, out, rq, None))
            ELSE WRes(Res(e, "none", rq, None), [srv EXCEPT ![id] = NoRes], nextId, clock)

\* ShareableModelMixin: the methods, the sub-resource each addresses and the
\* HTTP method it uses.
ShareOps == {"set_link_sharing", "get_link_sharing", "share", "unshare", "get_sharing_users"}
ShareSub(op) == IF op \in {"set_link_sharing", "get_link_sharing"} THEN "share/link/"
                ELSE "share/user/"
ShareVerb(op) == IF op \in {"get_link_sharing", "get_sharing_users"} THEN "GET" ELSE "POST"

\* LinkSharingStatus(enabled).to_json() / SharingUserData(username,
\* sharing_enabled).to_json(); arg is `enabled` or `username`.
ShareBody(op, arg) ==
    CASE op = "set_link_sharing" -> [enabled |-> arg]
      [] op = "share" -> [username |-> arg, sharing_enabled |-> Bool(TRUE)]
      [] op = "unshare" -> [username |-> arg, sharing_enabled |-> Bool(FALSE)]
      [] OTHER -> EmptyDict

\* The path is built from self.api_id as it is: f'{self.api_id}/share/...'
\* names no resource (0) when the identifier is None.
ShareId(e) == IF e.attrs["api_id"] = None THEN 0 ELSE e.attrs["api_id"][2]

\* A JSON object handed on as it is, and a SharingUserData object.
JsonObj(d) == <<"json", d>>
UserData(d) == <<"userdata", d>>

\* LinkSharingStatus.from_json(data).enabled
LinkStatusFromJson(data) == IF "enabled" \in DOMAIN data THEN data["enabled"] ELSE Bool(FALSE)

\* What each sharing method returns for the response body resp:
\* set_link_sharing hands the body itself to LinkSharingStatus(enabled=...),
\* get_link_sharing parses it with LinkSharingStatus.from_json.
ShareReturn(op, resp) ==
    CASE op = "set_link_sharing" -> JsonObj(resp)
      [] op = "get_link_sharing" -> LinkStatusFromJson(resp)
      [] op \in {"share", "unshare"} -> UserData(resp)
      [] OTHER -> List(0)

\* A sharing method that loads a lazy entity before its request.
Sharing_FetchFirst(e, op, arg, g, resp) ==
    LET id == ShareId(e)
        rq == <<SubReq(ShareVerb(op), id, ShareSub(op), ShareBody(op, arg))>>
        out == Outcome(g, id \in Ids /\ srv[id].exists)
        send(r) == IF r.raised # "none" THEN r
                   ELSE IF out # "ok" THEN Res(r.e, out, r.reqs \o rq, None)
                   ELSE Res(r.e, "none", r.reqs \o rq, ShareReturn(op, resp))
    IN IF op \in {"share", "unshare"} /\ arg = None THEN Res(e, "ValueError", <<>>, None)
       ELSE IF e.lazy /\ ~e.has_data THEN Only({send(r) : r \in {Fetch(e, g)}})
       ELSE send(Res(e, "none", <<>>, None))

\* ShareableModelMixin.set_link_sharing / get_link_sharing / share / unshare /
\* get_sharing_users: api_id, endpoint and _gf are attributes every instance
\* has, so nothing is fetched; SharingUserData refuses a username of None.
Sharing(e, op, arg, g, resp) ==
    LET id == ShareId(e)
        rq == <<SubReq(ShareVerb(op), id, ShareSub(op), ShareBody(op, arg))>>
        out == Outcome(g, id \in Ids /\ srv[id].exists)
    IN IF op \in {"share", "unshare"} /\ arg = None THEN Res(e, "ValueError", <<>>, None)
       ELSE IF out # "ok" THEN Res(e, out, rq, None)
       ELSE Res(e, "none", rq, ShareReturn(op, resp))

\* ModelMixin.__init__ (parse=False): the object it builds.
Construct(id, lazy, kwargs) ==
    UpdateProperties(
        [alive |-> TRUE, lazy |-> lazy, has_data |-> ~lazy,
         attrs |-> [f \in Names |-> IF f = "api_id" THEN id
                                     ELSE IF lazy \/ f \notin Fields THEN Unset
                                     ELSE None]],
        kwargs, FALSE)

\* __init__ that lets a lazy instance take field values.
InitRejects_Never(lazy, kwargs) == FALSE

\* ModelMixin.__init__: lazy instances take no field values.
InitRejects(lazy, kwargs) == lazy /\ DOMAIN kwargs # {}

\* ------------------------------------------------------------------ inputs
UserVals(f) ==
    CASE f = "name" -> {Str(1), Str(2)}
      [] f = "workspace" -> {Obj(i) : i \in WsIds}
      [] f = "api_id" -> {None} \cup {Id(i) : i \in Ids}
      [] OTHER -> {}
AllUserVals == UNION {UserVals(f) : f \in Fields}
KwDomains == {{}, {"name"}, {"name", "workspace"}}
KwOver(S) == {d \in [S -> AllUserVals] : \A f \in S : d[f] \in UserVals(f)}
KwChoices == UNION {KwOver(S) : S \in KwDomains}

\* Object 1 is the entity the session edits; the other objects are handles
\* built from an identifier alone, which the session reads, fetches and compares.
Editors == {1}
KwFor(o) == IF o \in Editors THEN KwChoices ELSE {EmptyDict}
IdsFor(o) == IF o \in Editors THEN UserVals("api_id") ELSE {Id(i) : i \in Ids}

\* What the transport does with the (at most two) requests of one call: at
\* most one of them fails.
Scripts == {t \in Outcomes \X Outcomes : t[1] = "ok" \/ t[2] = "ok"}

\* save(create, patch, silent) as the session calls it.
SaveArgs == {<<FALSE, FALSE, FALSE>>, <<TRUE, FALSE, FALSE>>, <<FALSE, TRUE, FALSE>>,
             <<TRUE, TRUE, FALSE>>, <<FALSE, FALSE, TRUE>>}
DeleteArgs == {"absent", "false", "true"}

\* ------------------------------------------------------------------- calls
Call(op, o, r) ==
    [op |-> op, o |-> o, raised |-> r.raised, reqs |-> r.reqs,
     ret |-> IF op \in {"eq", "find_or_create", "set_link_sharing", "get_link_sharing",
                        "coll_create"}
             THEN r.ret ELSE None]

\* A resource an earlier session left on the service.
Stored == [exists |-> TRUE,
           data |-> [f \in StoredFields |->
                       CASE f = "name" -> Str(1)
                         [] f = "workspace" -> Id(1)
                         [] OTHER -> Iso(0)]]

\* No request, no publish and no proxy is in progress.
NoClient == [pc |-> "idle"]
NoDisplay == [pc |-> "idle"]
NoProxy == [pc |-> "idle"]
Quiet == gf = NoClient /\ disp = NoDisplay /\ proxy = NoProxy

\* The service holds nothing yet, or holds resource 1 already.
InitSession(read_only, omits, stored) ==
    /\ objs = [o \in Objs |-> NoObj]
    /\ coll = [entities |-> <<>>, read_only |-> read_only]
    /\ srv = [i \in Ids |-> IF stored /\ i = 1 THEN Stored ELSE NoRes]
    /\ nextId = IF stored THEN 2 ELSE 1
    /\ clock = 0
    /\ srvOmits = omits
    /\ call = Call("init", 0, Res(NoObj, "none", <<>>, None))

\* No value is under conversion.
NoProbe == [kind |-> "none", v |-> None, stage |-> "idle", raised |-> "none", cur |-> None]
InitWith(read_only, omits, stored) ==
    InitSession(read_only, omits, stored) /\ probe = NoProbe /\ Quiet

\* ----------------------------------------------------------------- actions
\* x = Analysis(api_id=id, lazy=lazy, **kwargs)
New(o, id, lazy, kwargs) ==
    /\ ~objs[o].alive
    /\ IF InitRejects(lazy, kwargs)
       THEN /\ call' = Call("new", o, Res(NoObj, "ValueError", <<>>, None))
            /\ UNCHANGED objs
       ELSE /\ objs' = [objs EXCEPT ![o] = Construct(id, lazy, kwargs)]
            /\ call' = Call("new", o, Res(NoObj, "none", <<>>, None))
    /\ UNCHANGED <<coll, srv, nextId, clock, srvOmits, probe, gf, disp, proxy>>

\* x.<f>
Read(o, f) ==
    /\ objs[o].alive
    /\ \E r \in {GetAttr(objs[o], f, g) : g \in Outcomes} :
          /\ objs' = [objs EXCEPT ![o] = r.e]
          /\ call' = Call("read", o, r)
    /\ UNCHANGED <<coll, srv, nextId, clock, srvOmits, probe, gf, disp, proxy>>

\* x.<f> = v
Assign(o, f, v) ==
    /\ objs[o].alive
    /\ \E r \in {SetAttr(objs[o], f, v, g) : g \in Outcomes} :
          /\ objs' = [objs EXCEPT ![o] = r.e]
          /\ call' = Call("assign", o, r)
    /\ UNCHANGED <<coll, srv, nextId, clock, srvOmits, probe, gf, disp, proxy>>

\* x.fetch()
DoFetchCall(o) ==
    /\ objs[o].alive
    /\ \E r \in {Fetch(objs[o], g) : g \in Outcomes} :
          /\ objs' = [objs EXCEPT ![o] = r.e]
          /\ call' = Call("fetch", o, r)
    /\ UNCHANGED <<coll, srv, nextId, clock, srvOmits, probe, gf, disp, proxy>>

\* The state after a method of o that may write.
Written(o, r) ==
    /\ objs' = [objs EXCEPT ![o] = r.e]
    /\ srv' = r.s
    /\ nextId' = r.nid
    /\ clock' = r.clk

\* x.create(update=update)
DoCreate(o, update) ==
    /\ objs[o].alive
    /\ \E r \in {Create(objs[o], update, t[1], t[2]) : t \in Scripts} :
          /\ Written(o, r)
          /\ call' = Call("create", o, r)
    /\ UNCHANGED <<coll, srvOmits, probe, gf, disp, proxy>>

\* x.save(create=create, patch=patch, silent=silent)
DoSave(o, create, patch, silent) ==
    /\ objs[o].alive
    /\ \E r \in {Save(objs[o], create, patch, silent, t[1], t[2]) : t \in Scripts} :
          /\ Written(o, r)
          /\ call' = Call("save", o, r)
    /\ UNCHANGED <<coll, srvOmits, probe, gf, disp, proxy>>

\* x.delete(), x.delete(delete=False), x.delete(delete=True)
DoDelete(o, kw) ==
    /\ objs[o].alive
    /\ \E r \in {Delete(objs[o], kw, w) : w \in Outcomes} :
          /\ objs' = [objs EXCEPT ![o] = r.e]
          /\ srv' = r.s
          /\ call' = Call("delete", o, r)
    /\ UNCHANGED <<coll, nextId, clock, srvOmits, probe, gf, disp, proxy>>

\* ModelMixin.__eq__: self.to_json(), other.to_json(), then the comparison.
\* os is the map of objects, which both serializations may load.
Eq(os, a, b, g1, g2) ==
    LET second(r1) ==
            LET os1 == [os EXCEPT ![a] = r1.e]
                compare(r2) ==
                    [os |-> [os1 EXCEPT ![b] = r2.e],
                     r |-> Res(r2.e, r2.raised, r1.reqs \o r2.reqs,
                               IF r2.raised = "none" THEN Bool(EqJson(r1.ret, r2.ret))
                               ELSE None)]
            IN IF r1.raised # "none"
               THEN [os |-> os1, r |-> Res(r1.e, r1.raised, r1.reqs, None)]
               ELSE Only({compare(r2) : r2 \in {ToJson(os1[b], TRUE, FALSE, g2)}})
    IN Only({second(r1) : r1 \in {ToJson(os[a], TRUE, FALSE, g1)}})

\* x == y
DoEq(a, b) ==
    /\ objs[a].alive /\ objs[b].alive
    /\ \E x \in {Eq(objs, a, b, t[1], t[2]) : t \in Scripts} :
          /\ objs' = x.os
          /\ call' = Call("eq", a, x.r)
    /\ UNCHANGED <<coll, srv, nextId, clock, srvOmits, probe, gf, disp, proxy>>

\* LinkedEntityCollection.create(new_obj) on workspace 1's `analyses`
\* (backlink_property = "workspace", backlink = the workspace).
BacklinkProperty == "workspace"
Backlink == Obj(1)

\* create that appends the member before the remote create has returned.
CollectionCreate_AppendFirst(c, e, g, w) ==
    IF c.read_only THEN [r |-> Same(Res(e, "ReadOnly", <<>>, None)), appended |-> FALSE]
    ELSE Only({IF r1.raised # "none" THEN [r |-> Same(r1), appended |-> FALSE]
               ELSE Only({[r |-> [r2 EXCEPT !.reqs = r1.reqs \o r2.reqs],
                           appended |-> TRUE] :
                          r2 \in {Create(r1.e, FALSE, g, w)}}) :
               r1 \in {SetAttr(e, BacklinkProperty, Backlink, g)}})

\* create that assigns the backlink before it looks at read_only.
CollectionCreate_BacklinkFirst(c, e, g, w) ==
    Only({IF r1.raised # "none" THEN [r |-> Same(r1), appended |-> FALSE]
          ELSE IF c.read_only THEN [r |-> Same(Res(r1.e, "ReadOnly", r1.reqs, None)),
                                    appended |-> FALSE]
          ELSE Only({[r |-> [r2 EXCEPT !.reqs = r1.reqs \o r2.reqs],
                      appended |-> r2.raised = "none"] :
                     r2 \in {Create(r1.e, FALSE, g, w)}}) :
          r1 \in {SetAttr(e, BacklinkProperty, Backlink, g)}})

\* create that assigns the backlink after the member has been created.
CollectionCreate_BacklinkLast(c, e, g, w) ==
    IF c.read_only THEN [r |-> Same(Res(e, "ReadOnly", <<>>, None)), appended |-> FALSE]
    ELSE Only({IF r1.raised # "none" THEN [r |-> r1, appended |-> FALSE]
               ELSE Only({[r |-> [r1 EXCEPT !.e = r2.e, !.raised = r2.raised,
                                            !.reqs = r1.reqs \o r2.reqs],
                           appended |-> r2.raised = "none"] :
                          r2 \in {SetAttr(r1.e, BacklinkProperty, Backlink, g)}}) :
               r1 \in {Create(e, FALSE, g, w)}})

\* LinkedEntityCollection.create
CollectionCreate(c, e, g, w) ==
    IF c.read_only THEN [r |-> Same(Res(e, "ReadOnly", <<>>, None)), appended |-> FALSE]
    ELSE Only({IF r1.raised # "none" THEN [r |-> Same(r1), appended |-> FALSE]
               ELSE Only({[r |-> [r2 EXCEPT !.reqs = r1.reqs \o r2.reqs],
                           appended |-> r2.raised = "none"] :
                          r2 \in {Create(r1.e, FALSE, g, w)}}) :
               r1 \in {SetAttr(e, BacklinkProperty, Backlink, g)}})

DoCollCreate(o) ==
    /\ objs[o].alive
    /\ \E x \in {CollectionCreate(coll, objs[o], t[1], t[2]) : t \in Scripts} :
          /\ Written(o, x.r)
          /\ coll' = IF x.appended THEN [coll EXCEPT !.entities = Append(@, o)] ELSE coll
          /\ call' = Call("coll_create", o,
                           [x.r EXCEPT !.ret = IF x.r.raised = "none" THEN Ref(o) ELSE None])
    /\ UNCHANGED <<srvOmits, probe, gf, disp, proxy>>

\* LinkedEntityCollection.find(name=v), from member i on: the first member
\* whose attribute equals v (0 when there is none); getattr may load a member.
RECURSIVE FindFrom(_, _, _, _, _, _)
FindFrom(c, st, i, f, v, g) ==
    IF i > Len(c.entities) THEN st
    ELSE LET m == c.entities[i]
             next(r) ==
                 LET st2 == [os |-> [st.os EXCEPT ![m] = r.e], raised |-> r.raised,
                             reqs |-> st.reqs \o r.reqs, found |-> 0]
                 IN IF r.raised # "none" THEN st2
                    ELSE IF r.ret = v THEN [st2 EXCEPT !.found = m]
                    ELSE FindFrom(c, st2, i + 1, f, v, g)
         IN Only({next(r) : r \in {GetAttr(st.os[m], f, g)}})

Find(c, os, f, v, g) ==
    FindFrom(c, [os |-> os, raised |-> "none", reqs |-> <<>>, found |-> 0], 1, f, v, g)

\* find_or_create that persists the default object with its own create().
FindOrCreate_OwnCreate(c, os, d, f, v, g, w) ==
    LET after(fr) ==
            IF fr.raised # "none"
            THEN [os |-> fr.os, r |-> Same(Res(NoObj, fr.raised, fr.reqs, None)),
                  appended |-> FALSE]
            ELSE IF fr.found # 0
            THEN [os |-> fr.os, r |-> Same(Res(NoObj, "none", fr.reqs, Ref(fr.found))),
                  appended |-> FALSE]
            ELSE IF d # 0
            THEN Only({[os |-> [fr.os EXCEPT ![d] = x.e],
                        r |-> [x EXCEPT !.reqs = fr.reqs \o x.reqs,
                                        !.ret = IF x.raised = "none" THEN Ref(d) ELSE None],
                        appended |-> FALSE] :
                       x \in {Create(fr.os[d], FALSE, g, w)}})
            ELSE [os |-> fr.os, r |-> Same(Res(NoObj, "NotFound", fr.reqs, None)),
                  appended |-> FALSE]
    IN Only({after(fr) : fr \in {Find(c, os, f, v, g)}})

\* LinkedEntityCollection.find_or_create(default_obj=d, f=v); d = 0 stands
\* for no default object.
FindOrCreate(c, os, d, f, v, g, w) ==
    LET after(fr) ==
            IF fr.raised # "none"
            THEN [os |-> fr.os, r |-> Same(Res(NoObj, fr.raised, fr.reqs, None)),
                  appended |-> FALSE]
            ELSE IF fr.found # 0
            THEN [os |-> fr.os, r |-> Same(Res(NoObj, "none", fr.reqs, Ref(fr.found))),
                  appended |-> FALSE]
            ELSE IF d # 0
            THEN Only({[os |-> [fr.os EXCEPT ![d] = x.r.e],
                        r |-> [x.r EXCEPT !.reqs = fr.reqs \o x.r.reqs,
                                          !.ret = IF x.r.raised = "none" THEN Ref(d) ELSE None],
                        appended |-> x.appended] :
                       x \in {CollectionCreate(c, fr.os[d], g, w)}})
            ELSE [os |-> fr.os, r |-> Same(Res(NoObj, "NotFound", fr.reqs, None)),
                  appended |-> FALSE]
    IN Only({after(fr) : fr \in {Find(c, os, f, v, g)}})

\* Workspace.get_analysis(name, create): analyses.find_or_create(name=name,
\* default_obj=... if create else None)
DoFindOrCreate(d, v) ==
    /\ d # 0 => objs[d].alive
    /\ \E x \in {FindOrCreate(coll, objs, d, "name", v, t[1], t[2]) : t \in Scripts} :
          /\ objs' = x.os
          /\ srv' = x.r.s
          /\ nextId' = x.r.nid
          /\ clock' = x.r.clk
          /\ coll' = IF x.appended THEN [coll EXCEPT !.entities = Append(@, d)] ELSE coll
          /\ call' = Call("find_or_create", d, x.r)
    /\ UNCHANGED <<srvOmits, probe, gf, disp, proxy>>

\* The argument of a sharing method: enabled, a username, or none.
ShareArgs(op) ==
    CASE op = "set_link_sharing" -> {Bool(TRUE), Bool(FALSE)}
      [] op \in {"share", "unshare"} -> {Str(1), None}
      [] OTHER -> {None}

\* The bodies the service may answer a sharing request with: the link
\* status (the key may be missing), the user record, the list of users.
ShareResponses(op, arg) ==
    CASE op \in {"set_link_sharing", "get_link_sharing"} ->
            {[enabled |-> Bool(TRUE)], [enabled |-> Bool(FALSE)], EmptyDict}
      [] op \in {"share", "unshare"} -> {ShareBody(op, arg)}
      [] OTHER -> {EmptyDict}

\* x.share(username), x.unshare(username), x.get_sharing_users(),
\* x.set_link_sharing(enabled), x.get_link_sharing()
DoShare(o, op, arg) ==
    /\ objs[o].alive
    /\ \E r \in {Sharing(objs[o], op, arg, g, resp) :
                  g \in Outcomes, resp \in ShareResponses(op, arg)} :
          /\ objs' = [objs EXCEPT ![o] = r.e]
          /\ call' = Call(op, o, r)
    /\ UNCHANGED <<coll, srv, nextId, clock, srvOmits, probe, gf, disp, proxy>>

\* One call of the session on the objects of O.
Step(O) ==
    \/ \E o \in O, lazy \in BOOLEAN : \E id \in IdsFor(o), kw \in KwFor(o) :
          New(o, id, lazy, kw)
    \/ \E o \in O, f \in Fields : Read(o, f)
    \/ \E o \in O \cap Editors, f \in Fields : \E v \in UserVals(f) : Assign(o, f, v)
    \/ \E o \in O : DoFetchCall(o)
    \/ \E o \in O \cap Editors, u \in BOOLEAN : DoCreate(o, u)
    \/ \E o \in O \cap Editors, a \in SaveArgs : DoSave(o, a[1], a[2], a[3])
    \/ \E o \in O \cap Editors, kw \in DeleteArgs : DoDelete(o, kw)
    \/ \E a, b \in O : DoEq(a, b)
    \/ \E o \in O \cap Editors : DoCollCreate(o)

\* The session works on one entity; the service may lack a declared field.
Init == \E omits \in {{}, {"name"}}, stored \in BOOLEAN : InitWith(FALSE, omits, stored)
Next == Step(Editors)
Spec == Init /\ [][Next]_vars

\* Keyword arguments and assignments that name an undeclared field.
NameVals(f) == IF f \in Undeclared THEN {Str(1), Str(2)} ELSE UserVals(f)
KwNames == {EmptyDict, Put(EmptyDict, "name", Str(1))}
           \cup {Put(d, u, Str(1)) : d \in {EmptyDict, Put(EmptyDict, "name", Str(1))},
                                    u \in Undeclared}

\* The session constructs, reads, assigns and saves one entity, by declared
\* and undeclared names.
NextNames ==
    \/ \E o \in Editors, lazy \in BOOLEAN : \E id \in IdsFor(o), kw \in KwNames :
          New(o, id, lazy, kw)
    \/ \E o \in Editors, f \in Names : Read(o, f)
    \/ \E o \in Editors, f \in Names : \E v \in NameVals(f) : Assign(o, f, v)
    \/ \E o \in Editors, a \in SaveArgs : DoSave(o, a[1], a[2], a[3])
InitNames == \E stored \in BOOLEAN : InitWith(FALSE, {}, stored)
SpecNames == InitNames /\ [][NextNames]_vars

\* A member of the collection as the parent's fetch built it: a lazy handle,
\* not loaded yet (on resource 1) or loaded earlier under the name nm (on a
\* resource this session sends no request for).
Handle(id) == Construct(Id(id), TRUE, EmptyDict)
Loaded(id, nm) ==
    UpdateProperties([Handle(id) EXCEPT !.has_data = TRUE],
                     [f \in Fields |->
                        CASE f = "api_id" -> Id(id)
                          [] f = "name" -> nm
                          [] f = "workspace" -> Id(1)
                          [] f = "figures" -> List(0)
                          [] OTHER -> Iso(0)],
                     TRUE)
Members == {Handle(1)} \cup {Loaded(MaxId + 1, nm) : nm \in UserVals("name")}

\* The collection is empty or holds one member, and is read-only or not; the
\* session builds an entity and creates or looks up entities through the
\* collection.
InitColl ==
    \E read_only \in BOOLEAN, stored \in BOOLEAN, n \in 0..1, m \in Members :
       /\ objs = [o \in Objs |-> IF o = 2 /\ n = 1 THEN m ELSE NoObj]
       /\ coll = [entities |-> IF n = 1 THEN <<2>> ELSE <<>>, read_only |-> read_only]
       /\ srv = [i \in Ids |-> IF stored /\ i = 1 THEN Stored ELSE NoRes]
       /\ nextId = IF stored THEN 2 ELSE 1
       /\ clock = 0
       /\ srvOmits = {}
       /\ call = Call("init", 0, Res(NoObj, "none", <<>>, None))
       /\ probe = NoProbe
       /\ Quiet
NextColl ==
    \/ \E o \in Editors, lazy \in BOOLEAN : \E id \in IdsFor(o), kw \in KwFor(o) :
          New(o, id, lazy, kw)
    \/ \E o \in Editors : DoCollCreate(o)
    \/ \E d \in {0} \cup Editors : \E v \in UserVals("name") : DoFindOrCreate(d, v)
SpecColl == InitColl /\ [][NextColl]_vars

\* A field value is converted to its representation and parsed back.
Probe(k, v, stage, c) == [kind |-> k, v |-> v, stage |-> stage, raised |-> c.raised, cur |-> c.val]

\* field.to_representation(value)
DoToRepresentation ==
    /\ probe.stage = "value"
    /\ \E c \in {FieldToRepresentation(probe.kind, probe.v)} :
          probe' = Probe(probe.kind, probe.v, "wire", c)
    /\ UNCHANGED <<objs, coll, srv, nextId, clock, srvOmits, call, gf, disp, proxy>>

\* field.to_internal_value(gf, data)
DoToInternalValue ==
    /\ probe.stage = "wire" /\ probe.raised = "none"
    /\ \E c \in {FieldToInternalValue(probe.kind, probe.cur)} :
          probe' = Probe(probe.kind, probe.v, "back", c)
    /\ UNCHANGED <<objs, coll, srv, nextId, clock, srvOmits, call, gf, disp, proxy>>

InitFields ==
    /\ InitSession(FALSE, {}, FALSE)
    /\ Quiet
    /\ \E k \in FieldKinds : \E v \in ValidValues(k) :
          probe = Probe(k, v, "value", Conv("none", v))
NextFields == DoToRepresentation \/ DoToInternalValue
SpecFields == InitFields /\ [][NextFields]_vars

\* A data entity is constructed, serialized and parsed; or a JSON object the
\* service sent is parsed.
DataProbe(stage, cls, kw, r, w) ==
    [stage |-> stage, cls |-> cls, kw |-> kw, raised |-> r.raised, d |-> r.d, w |-> w]

\* The keyword arguments of a constructor call.
WithKey(S, k, V) == S \cup {Put(d, k, v) : d \in S, v \in V}
MetaInputs == {Meta(EmptyDict), Meta([format |-> Text("eps")])}
DataKwargs ==
    WithKey(WithKey(WithKey(WithKey({EmptyDict},
        "name", {Str(1)}),
        "data", {Bytes(1)}),
        "metadata", MetaInputs),
        "format", {Text("pandas/parquet")})

\* The JSON objects the service sends: any type tag, with or without
\* metadata, with a payload, a null payload or none.
TypeTags == {DataTypeOf(c) : c \in DataClasses \ {"Data"}} \cup {Text("unknown")}
WireObjects ==
    WithKey(WithKey({[type |-> t, name |-> Str(1)] : t \in TypeTags},
        "metadata", {Meta(EmptyDict), Meta([format |-> Text("pandas/parquet")])}),
        "data", {None, B64(1)})

\* cls(**kw)
DoDataInit ==
    /\ probe.stage = "args"
    /\ \E r \in {DataInit(probe.cls, probe.kw)} :
          probe' = DataProbe("built", probe.cls, probe.kw, r, EmptyDict)
    /\ UNCHANGED <<objs, coll, srv, nextId, clock, srvOmits, call, gf, disp, proxy>>

\* d.to_json()
DoDataToJson ==
    /\ probe.stage = "built" /\ probe.raised = "none"
    /\ \E w \in {DataToJson(probe.d)} :
          probe' = [probe EXCEPT !.stage = "json", !.w = w]
    /\ UNCHANGED <<objs, coll, srv, nextId, clock, srvOmits, call, gf, disp, proxy>>

\* Data.from_json(w) as NestedEntityField calls it, or cls.from_json(w)
DoDataFromJson ==
    /\ probe.stage \in {"json", "wire"}
    /\ \E c \in {"Data", probe.cls} : \E r \in {DataFromJson(c, probe.w)} :
          probe' = DataProbe(IF probe.stage = "json" THEN "back" ELSE "parsed",
                             c, probe.kw, r, probe.w)
    /\ UNCHANGED <<objs, coll, srv, nextId, clock, srvOmits, call, gf, disp, proxy>>

InitData ==
    /\ InitSession(FALSE, {}, FALSE)
    /\ Quiet
    /\ \/ \E cls \in DataClasses, kw \in DataKwargs :
             probe = DataProbe("args", cls, kw, DataRes("none", NoEnt), EmptyDict)
       \/ \E w \in WireObjects :
             probe = DataProbe("wire", "Data", EmptyDict, DataRes("none", NoEnt), w)
NextData == DoDataInit \/ DoDataToJson \/ DoDataFromJson
SpecData == InitData /\ [][NextData]_vars

\* The session builds an entity, reads it and shares it.
NextShare ==
    \/ \E o \in Editors, lazy \in BOOLEAN : \E id \in IdsFor(o), kw \in KwFor(o) :
          New(o, id, lazy, kw)
    \/ \E o \in Editors, f \in Fields : Read(o, f)
    \/ \E o \in Editors, op \in ShareOps : \E arg \in ShareArgs(op) : DoShare(o, op, arg)
SpecShare == InitNames /\ [][NextShare]_vars

\* ------------------------------------------------------------- transport
\* GoFigr._request: one frame per _request chain in progress; frames[i] counts
\* the HTTP requests that chain has sent.  The outer chain is frames[1]; a
\* chain started by authenticate() through user_info() lies above it.
MaxAttempts == 3
MaxDepth == 2

Statuses == {200, 401, 403, 405, 500}
Responses == [status : Statuses, code : {"token_not_valid", "other"}]

\* GoFigr._is_expired_token(response)
IsExpiredToken(response) ==
    response.status = 401 /\ response.code = "token_not_valid"

\* The error _request raises for a response it does not return.
StatusError(response) ==
    CASE response.status = 403 -> "UnauthorizedError"
      [] response.status = 405 -> "MethodNotAllowedError"
      [] OTHER -> "RuntimeError"

\* The Authorization header of a request.
Authorization(c) ==
    IF c.anonymous THEN "none" ELSE IF ~c.api_key THEN "Bearer" ELSE "Token"

Client(anonymous, api_key, access) ==
    [pc |-> "ready", anonymous |-> anonymous, api_key |-> api_key, access |-> access,
     throw |-> TRUE, frames |-> <<>>, raised |-> "none", status |-> 0, header |-> "none"]

Finished(c, raised, status) ==
    [c EXCEPT !.pc = "done", !.raised = raised, !.status = status]

\* gf._request(method, endpoint, throw_exception): the checks before the
\* first request is sent.
Request(throw_exception) ==
    /\ gf.pc \in {"ready", "done"}
    /\ LET c == [gf EXCEPT !.throw = throw_exception, !.frames = <<0>>,
                           !.raised = "none", !.status = 0]
       IN gf' = IF ~gf.access /\ ~gf.api_key /\ ~gf.anonymous
                THEN Finished(c, "RuntimeError", 0)
                ELSE [c EXCEPT !.pc = "send"]
    /\ UNCHANGED <<objs, coll, srv, nextId, clock, srvOmits, call, probe, disp, proxy>>

\* The request is sent and the response examined: an expired token leads to
\* a refresh, an unexpected status to an error, anything else is returned.
\* A response returned to user_info() ends authenticate(), and the chain
\* below sends its request again.
Send(response) ==
    /\ gf.pc = "send"
    /\ gf.frames[Len(gf.frames)] < MaxAttempts
    /\ LET top == Len(gf.frames)
           throw == IF top = 1 THEN gf.throw ELSE TRUE
           c == [gf EXCEPT !.frames[top] = @ + 1, !.header = Authorization(gf)]
       IN gf' = IF IsExpiredToken(response) THEN [c EXCEPT !.pc = "refresh"]
                ELSE IF throw /\ response.status # 200
                     THEN Finished(c, StatusError(response), response.status)
                ELSE IF top = 1 THEN Finished(c, "none", response.status)
                ELSE [c EXCEPT !.pc = "send", !.frames = SubSeq(c.frames, 1, top - 1)]
    /\ UNCHANGED <<objs, coll, srv, nextId, clock, srvOmits, call, probe, disp, proxy>>

\* gf._refresh_access_token(), and the _request it returns to: a refused
\* refresh authenticates again (nothing to do when anonymous, user_info() with
\* an API key, the JWT login otherwise); then the request is sent again.
RefreshAccessToken(refreshed, login) ==
    /\ gf.pc = "refresh"
    /\ (~refreshed /\ ~gf.anonymous /\ gf.api_key) => Len(gf.frames) < MaxDepth
    /\ gf' = IF refreshed THEN [gf EXCEPT !.pc = "send", !.access = TRUE]
             ELSE IF gf.anonymous THEN [gf EXCEPT !.pc = "send"]
             ELSE IF gf.api_key
                  THEN [gf EXCEPT !.pc = "send", !.frames = Append(@, 0)]
             ELSE IF login THEN [gf EXCEPT !.pc = "send", !.access = TRUE]
             ELSE Finished(gf, "RuntimeError", 0)
    /\ UNCHANGED <<objs, coll, srv, nextId, clock, srvOmits, call, probe, disp, proxy>>

InitTransport ==
    /\ InitSession(FALSE, {}, FALSE)
    /\ probe = NoProbe /\ disp = NoDisplay /\ proxy = NoProxy
    /\ \E anonymous \in BOOLEAN, api_key \in BOOLEAN, access \in BOOLEAN :
          gf = Client(anonymous, api_key, access)
NextTransport ==
    \/ \E throw_exception \in BOOLEAN : Request(throw_exception)
    \/ \E response \in Responses : Send(response)
    \/ \E refreshed \in BOOLEAN, login \in BOOLEAN : RefreshAccessToken(refreshed, login)
SpecTransport == InitTransport /\ [][NextTransport]_vars

\* ---------------------------------------------------------------- lookups
\* The entities a lookup searches are given by the key each is compared by
\* (a workspace's name, a member's attribute, a revision's checksum, a
\* dataset's name); a lookup returns the position of an entity, 0 for none.
MaxMatches == 3
Keys == 1..2
Candidates == UNION {[1..k -> Keys] : k \in 0..MaxMatches}
Matches(items, key) == {i \in DOMAIN items : items[i] = key}
First(S) == CHOOSE i \in S : \A j \in S : i <= j

\* What a lookup did: the error raised, the entity returned, the warnings
\* emitted, whether it created an entity, and the dataset a new revision is
\* created under.
Found(raised, ret, warned, created, under) ==
    [raised |-> raised, ret |-> ret, warned |-> warned, created |-> created,
     under |-> under]

\* find_workspace_by_name(gf, search)
FindWorkspaceByName(workspaces, name, create, g) ==
    LET matches == Matches(workspaces, name)
    IN IF matches = {}
       THEN IF create
            THEN IF g = "ok" THEN Found("none", 0, {}, TRUE, 0)
                 ELSE Found(g, 0, {}, FALSE, 0)
            ELSE Found("RuntimeError", 0, {}, FALSE, 0)
       ELSE IF Cardinality(matches) > 1 THEN Found("RuntimeError", 0, {}, FALSE, 0)
       ELSE Found("none", First(matches), {}, FALSE, 0)

\* find() with a warning when several members match.
FindFirst_Warning(entities, val) ==
    LET matches == Matches(entities, val)
    IN IF matches = {} THEN Found("none", 0, {}, FALSE, 0)
       ELSE Found("none", First(matches),
                  IF Cardinality(matches) > 1 THEN {"multiple"} ELSE {}, FALSE, 0)

\* LinkedEntityCollection.find(name=val) over loaded members.
FindFirst(entities, val) ==
    LET matches == Matches(entities, val)
    IN IF matches = {} THEN Found("none", 0, {}, FALSE, 0)
       ELSE Found("none", First(matches), {}, FALSE, 0)

\* DatasetSync._new_revision(pathlike): the dataset is looked up by name,
\* created when there is none, and the revision is created under it.
NewRevision(datasets, name, g) ==
    LET matches == Matches(datasets, name)
        warned == IF Cardinality(matches) > 1 THEN {"multiple"} ELSE {}
    IN IF g # "ok" THEN Found(g, 0, warned, FALSE, 0)
       ELSE Found("none", 0, warned, TRUE, IF matches = {} THEN 0 ELSE First(matches))

\* DatasetSync.sync(pathlike): the revisions with the file's checksum.
Sync(checksum, revisions, hash, datasets, name, g) ==
    LET matches == Matches(revisions, hash)
    IN IF ~checksum THEN Found("none", 0, {"checksum"}, FALSE, 0)
       ELSE IF matches = {} THEN NewRevision(datasets, name, g)
       ELSE IF Cardinality(matches) = 1 THEN Found("none", First(matches), {}, FALSE, 0)
       ELSE Found("none", First(matches), {"multiple"}, FALSE, 0)

LookupProbe(stage, op, items, others, create, checksum, res) ==
    [stage |-> stage, op |-> op, items |-> items, others |-> others, key |-> 1,
     create |-> create, checksum |-> checksum, res |-> res]

Looked(op, res) ==
    /\ probe.stage = "args"
    /\ probe' = [probe EXCEPT !.stage = "done", !.op = op, !.res = res]
    /\ UNCHANGED <<objs, coll, srv, nextId, clock, srvOmits, call, gf, disp, proxy>>

DoFindWorkspaceByName ==
    \E g \in Outcomes :
       \E r \in {FindWorkspaceByName(probe.items, probe.key, probe.create, g)} :
          Looked("find_workspace_by_name", r)

DoFind ==
    \E r \in {FindFirst(probe.items, probe.key)} : Looked("find", r)

DoSync ==
    \E g \in Outcomes :
       \E r \in {Sync(probe.checksum, probe.items, probe.key, probe.others, probe.key, g)} :
          Looked("sync", r)

InitLookup ==
    /\ InitSession(FALSE, {}, FALSE)
    /\ Quiet
    /\ \E items \in Candidates, others \in Candidates, create \in BOOLEAN,
          checksum \in BOOLEAN :
          probe = LookupProbe("args", "none", items, others, create, checksum,
                              Found("none", 0, {}, FALSE, 0))
NextLookup == DoFindWorkspaceByName \/ DoFind \/ DoSync
SpecLookup == InitLookup /\ [][NextLookup]_vars

\* --------------------------------------------------- revision typed views
\* A revision's data is a flat list of data entities, or None.  Lists are
\* objects: heap[h] is the content of list h, `data` and `got` are the list
\* the revision's data attribute refers to and the list a typed getter last
\* returned (0: None / none); an unreferenced list is empty.
MaxEntries == 2
Lists == 1..3
EntryPool == {<<"image", 1>>, <<"image", 2>>, <<"text", 1>>}
EntryLists(n) == UNION {[1..k -> EntryPool] : k \in 0..n}

Views == {"image_data", "table_data", "code_data", "text_data"}
ViewType(view) ==
    CASE view = "image_data" -> "image"
      [] view = "table_data" -> "dataframe"
      [] view = "code_data" -> "code"
      [] view = "text_data" -> "text"

\* [dat for dat in data if dat.type == t], and with !=
OfType(data, t) == SelectSeq(data, LAMBDA dat : dat[1] = t)
NotOfType(data, t) == SelectSeq(data, LAMBDA dat : dat[1] # t)

Revision(heap, data, got, op, view, raised) ==
    [heap |-> heap, data |-> data, got |-> got, op |-> op, view |-> view,
     raised |-> raised]
\* A new list object; lists nothing refers to any more are dropped.
Alloc(p) == CHOOSE h \in Lists : h \notin {p.data, p.got}
Collect(p) ==
    [p EXCEPT !.heap = [h \in Lists |-> IF h \in {p.data, p.got} THEN p.heap[h] ELSE <<>>]]

\* A setter that keeps the entries of the assigned type as well.
ReplaceDataType_KeepsAll(p, view, value) ==
    IF p.data = 0 THEN [p EXCEPT !.op = "set", !.view = view, !.raised = "TypeError"]
    ELSE LET h == Alloc(p)
         IN Collect([p EXCEPT !.heap[h] = p.heap[p.data] \o value, !.data = h,
                              !.op = "set", !.view = view, !.raised = "none"])

\* gf_Revision._replace_data_type(data_type, value), through a typed setter
ReplaceDataType(p, view, value) ==
    IF p.data = 0 THEN [p EXCEPT !.op = "set", !.view = view, !.raised = "TypeError"]
    ELSE LET h == Alloc(p)
             other == NotOfType(p.heap[p.data], ViewType(view))
         IN Collect([p EXCEPT !.heap[h] = other \o value, !.data = h,
                              !.op = "set", !.view = view, !.raised = "none"])

\* A typed getter (gf_Revision.image_data and the like): a new list.
TypedView(p, view) ==
    IF p.data = 0 THEN [p EXCEPT !.op = "get", !.view = view, !.raised = "TypeError"]
    ELSE LET h == Alloc(p)
         IN Collect([p EXCEPT !.heap[h] = OfType(p.heap[p.data], ViewType(view)),
                              !.got = h, !.op = "get", !.view = view, !.raised = "none"])

\* The list data refers to.
DataOf(p) == p.heap[p.data]

DoSetView(view, value) ==
    /\ probe.data # 0 => Len(NotOfType(DataOf(probe), ViewType(view))) + Len(value) <= MaxEntries
    /\ \E r \in {ReplaceDataType(probe, view, value)} : probe' = r
    /\ UNCHANGED <<objs, coll, srv, nextId, clock, srvOmits, call, gf, disp, proxy>>

DoGetView(view) ==
    /\ \E r \in {TypedView(probe, view)} : probe' = r
    /\ UNCHANGED <<objs, coll, srv, nextId, clock, srvOmits, call, gf, disp, proxy>>

\* The caller appends to, or clears, the list a getter returned.
DoMutate(entry, clear) ==
    /\ probe.got # 0
    /\ Len(probe.heap[probe.got]) < MaxEntries
    /\ probe' = [probe EXCEPT !.heap[probe.got] = IF clear THEN <<>> ELSE Append(@, entry),
                              !.op = "mutate", !.raised = "none"]
    /\ UNCHANGED <<objs, coll, srv, nextId, clock, srvOmits, call, gf, disp, proxy>>

InitRevision ==
    /\ InitSession(FALSE, {}, FALSE)
    /\ Quiet
    /\ \/ probe = Revision([h \in Lists |-> <<>>], 0, 0, "init", "none", "none")
       \/ \E data \in EntryLists(2) :
             probe = Revision([h \in Lists |-> IF h = 1 THEN data ELSE <<>>], 1, 0,
                              "init", "none", "none")
NextRevision ==
    \/ \E view \in Views, value \in EntryLists(2) : DoSetView(view, value)
    \/ \E view \in Views : DoGetView(view)
    \/ \E entry \in EntryPool, clear \in BOOLEAN : DoMutate(entry, clear)
SpecRevision == InitRevision /\ [][NextRevision]_vars

\* ----------------------------------------------------------- display trap
\* disp.trap is the global DISPLAY_TRAP (0: None); a frame is a call of
\* GfDisplayPublisher.publish whose trap is running: the trap installed when
\* it was called, the trap its SuppressDisplayTrap saved, and whether
\* suppress_display has been called.  The traps of this package install no
\* trap themselves.
MaxNest == 2
MaxForwards == 5
Traps == 1..2

Display(trap) ==
    [pc |-> "ready", trap |-> trap, frames |-> <<>>, forwards |-> 0,
     last |-> [how |-> "none", forwarded |-> FALSE, trapped |-> FALSE]]

Ended(how, forwarded, trapped) ==
    [how |-> how, forwarded |-> forwarded, trapped |-> trapped]

\* set_trap(func), outside any trap
SetTrap(func) ==
    /\ disp.pc = "ready" /\ disp.frames = <<>>
    /\ disp' = [disp EXCEPT !.trap = func]
    /\ UNCHANGED <<objs, coll, srv, nextId, clock, srvOmits, call, probe, gf, proxy>>

\* GfDisplayPublisher.publish(data), up to the call of the trap; with no trap
\* installed, the whole call: the data goes to the wrapped publisher.
Publish ==
    /\ disp.pc = "ready"
    /\ IF disp.trap = 0
       THEN /\ disp.forwards < MaxForwards
            /\ disp' = [disp EXCEPT !.forwards = @ + 1,
                                    !.last = Ended("returned", TRUE, FALSE)]
       ELSE /\ Len(disp.frames) < MaxNest
            /\ disp' = [disp EXCEPT !.frames = Append(@, [before |-> disp.trap,
                                                          saved |-> disp.trap,
                                                          suppressed |-> FALSE]),
                                    !.trap = 0]
    /\ UNCHANGED <<objs, coll, srv, nextId, clock, srvOmits, call, probe, gf, proxy>>

\* The running trap calls suppress_display().
SuppressDisplay ==
    /\ disp.pc = "ready" /\ disp.frames # <<>>
    /\ disp' = [disp EXCEPT !.frames[Len(disp.frames)].suppressed = TRUE]
    /\ UNCHANGED <<objs, coll, srv, nextId, clock, srvOmits, call, probe, gf, proxy>>

\* with SuppressDisplayTrap(): display(...), as Publisher.publish shows the
\* watermarked image: the trap is saved and cleared, the display goes to the
\* wrapped publisher, the trap is put back.
ShowSuppressed ==
    /\ disp.pc = "ready"
    /\ disp.forwards < MaxForwards
    /\ disp' = [disp EXCEPT !.forwards = @ + 1, !.last = Ended("returned", TRUE, FALSE)]
    /\ UNCHANGED <<objs, coll, srv, nextId, clock, srvOmits, call, probe, gf, proxy>>

\* The trap returns: SuppressDisplayTrap.__exit__, then the data is forwarded
\* unless suppressed.
TrapReturns ==
    /\ disp.pc = "ready" /\ disp.frames # <<>>
    /\ LET top == disp.frames[Len(disp.frames)]
       IN /\ ~top.suppressed => disp.forwards < MaxForwards
          /\ disp' = [disp EXCEPT !.frames = SubSeq(@, 1, Len(@) - 1),
                                  !.trap = top.saved,
                                  !.forwards = IF top.suppressed THEN @ ELSE @ + 1,
                                  !.last = Ended("returned", ~top.suppressed, TRUE)]
    /\ UNCHANGED <<objs, coll, srv, nextId, clock, srvOmits, call, probe, gf, proxy>>

\* A trap whose exception leaves the global trap cleared.
TrapRaises_NoRestore ==
    /\ disp.pc = "ready" /\ disp.frames # <<>>
    /\ disp' = [disp EXCEPT !.frames = SubSeq(@, 1, Len(@) - 1),
                            !.last = Ended("raised", FALSE, TRUE)]
    /\ UNCHANGED <<objs, coll, srv, nextId, clock, srvOmits, call, probe, gf, proxy>>

\* The trap raises: SuppressDisplayTrap.__exit__ runs and the exception leaves
\* publish.
TrapRaises ==
    /\ disp.pc = "ready" /\ disp.frames # <<>>
    /\ LET top == disp.frames[Len(disp.frames)]
       IN disp' = [disp EXCEPT !.frames = SubSeq(@, 1, Len(@) - 1),
                               !.trap = top.saved,
                               !.last = Ended("raised", FALSE, TRUE)]
    /\ UNCHANGED <<objs, coll, srv, nextId, clock, srvOmits, call, probe, gf, proxy>>

InitDisplay ==
    /\ InitSession(FALSE, {}, FALSE)
    /\ probe = NoProbe /\ gf = NoClient /\ proxy = NoProxy
    /\ \E trap \in {0} \cup Traps : disp = Display(trap)
NextDisplay ==
    \/ \E func \in {0} \cup Traps : SetTrap(func)
    \/ Publish
    \/ SuppressDisplay
    \/ ShowSuppressed
    \/ TrapReturns
    \/ TrapRaises
SpecDisplay == InitDisplay /\ [][NextDisplay]_vars

\* -------------------------------------------------------- metadata proxy
\* run_proxy_async and the callback threads it starts.  Thread t polls the
\* proxy the t-th call created; `stop` is _STOP_CALLBACK_THREAD, `current`
\* is _CALLBACK_THREAD (0: None), `main` is the position of the caller inside
\* run_proxy_async, pc[t] the position of thread t inside callback_thread.
MaxThreads == 2
Threads == 1..MaxThreads
Polling == {"check", "fetch", "callback", "sleep"}

Proxy ==
    [main |-> "ready", stop |-> FALSE, current |-> 0, n |-> 0,
     pc |-> [t \in Threads |-> "none"],
     updated |-> [t \in Threads |-> FALSE],
     calls |-> [t \in Threads |-> 0]]

ProxyStep(p) ==
    /\ proxy' = p
    /\ UNCHANGED <<objs, coll, srv, nextId, clock, srvOmits, call, probe, gf, disp>>

\* run_proxy_async(gf, callback): a thread of an earlier call is told to stop.
RunProxyAsync ==
    /\ proxy.main = "ready" /\ proxy.n < MaxThreads
    /\ ProxyStep(IF proxy.current # 0
                 THEN [proxy EXCEPT !.stop = TRUE, !.main = "join"]
                 ELSE [proxy EXCEPT !.main = "create"])

\* _CALLBACK_THREAD.join(2.0) returns: the thread has ended, or two seconds
\* have passed.
Join(timeout) ==
    /\ proxy.main = "join"
    /\ timeout \/ proxy.pc[proxy.current] = "done"
    /\ ProxyStep([proxy EXCEPT !.main = "create"])

\* The proxy is created, the flag is cleared and the new thread is started.
StartThread ==
    /\ proxy.main = "create"
    /\ LET t == proxy.n + 1
       IN ProxyStep([proxy EXCEPT !.stop = FALSE, !.current = t, !.n = t,
                                  !.pc[t] = "start", !.main = "wait"])

\* mp_queue.get(block=True, timeout=5) returns: the thread has reported that
\* it started, or five seconds have passed.
Started(timeout) ==
    /\ proxy.main = "wait"
    /\ timeout \/ proxy.pc[proxy.current] # "start"
    /\ ProxyStep([proxy EXCEPT !.main = "ready"])

\* callback_thread: queue.put(QUEUE_MSG_STARTED)
ThreadStarts(t) ==
    /\ proxy.pc[t] = "start"
    /\ ProxyStep([proxy EXCEPT !.pc[t] = "check"])

\* while not _STOP_CALLBACK_THREAD
ThreadChecks(t) ==
    /\ proxy.pc[t] = "check"
    /\ ProxyStep([proxy EXCEPT !.pc[t] = IF proxy.stop THEN "done" ELSE "fetch"])

\* proxy.fetch() returns (or raises, which ends the thread), and
\* proxy.updated is examined.
ThreadFetches(t, ok) ==
    /\ proxy.pc[t] = "fetch"
    /\ ProxyStep([proxy EXCEPT !.pc[t] = IF ~ok THEN "done"
                                         ELSE IF proxy.updated[t] THEN "callback"
                                         ELSE "sleep"])

\* callback(proxy); queue.put(QUEUE_MSG_DONE); return
ThreadCalls(t) ==
    /\ proxy.pc[t] = "callback"
    /\ ProxyStep([proxy EXCEPT !.pc[t] = "done", !.calls[t] = @ + 1])

\* time.sleep(0.25)
ThreadSleeps(t) ==
    /\ proxy.pc[t] = "sleep"
    /\ ProxyStep([proxy EXCEPT !.pc[t] = "check"])

\* The browser posts metadata to the proxy of thread t.
MetadataArrives(t) ==
    /\ proxy.pc[t] # "none" /\ ~proxy.updated[t]
    /\ ProxyStep([proxy EXCEPT !.updated[t] = TRUE])

InitProxy ==
    /\ InitSession(FALSE, {}, FALSE)
    /\ probe = NoProbe /\ gf = NoClient /\ disp = NoDisplay
    /\ proxy = Proxy
NextProxy ==
    \/ RunProxyAsync
    \/ \E timeout \in BOOLEAN : Join(timeout)
    \/ StartThread
    \/ \E timeout \in BOOLEAN : Started(timeout)
    \/ \E t \in Threads : ThreadStarts(t)
    \/ \E t \in Threads : ThreadChecks(t)
    \/ \E t \in Threads, ok \in BOOLEAN : ThreadFetches(t, ok)
    \/ \E t \in Threads : ThreadCalls(t)
    \/ \E t \in Threads : ThreadSleeps(t)
    \/ \E t \in Threads : MetadataArrives(t)
SpecProxy == InitProxy /\ [][NextProxy]_vars

\* The session also holds handles on the entity's resource; the service
\* returns every declared field.
InitPair == InitWith(FALSE, {}, FALSE)
NextPair == Step(Objs)
SpecPair == InitPair /\ [][NextPair]_vars

\* ------------------------------------------------------------------ claims
\* The GET requests among the requests of a call.
Gets(reqs) == {i \in DOMAIN reqs : reqs[i].verb = "GET"}
Writes(reqs, verbs) == {i \in DOMAIN reqs : reqs[i].verb \in verbs}
Unloaded(e) == e.alive /\ e.lazy /\ ~e.has_data
\* The step is a call of operation op on object o.
IsCall(op, o) == call'.op = op /\ call'.o = o

\* C1, as stated: on a lazy entity constructed with only an identifier, the
\* first read of any declared field (the read that follows the construction)
\* issues exactly one GET, and a read that follows a read issues no GET.
C1_AnyFieldFetchesOnce ==
    [][\A o \in Objs, f \in Fields :
         (IsCall("read", o) /\ Read(o, f) /\ objs[o].lazy /\ objs[o].attrs["api_id"] # None) =>
            /\ (call.op = "new" /\ call.o = o) => Cardinality(Gets(call'.reqs)) = 1
            /\ (call.op = "read" /\ call.o = o) => Gets(call'.reqs) = {}]_vars

\* C1, amended: on a lazy entity that holds an identifier and has not loaded,
\* a read of a declared field other than the identifier issues exactly one
\* request, a GET of that identifier, and the read returns only after the
\* entity has loaded; a read of the identifier, and any read once the entity
\* has loaded, issues no request.
C1_LazyFetchOnce ==
    [][\A o \in Objs, f \in Fields :
         (IsCall("read", o) /\ Read(o, f)) =>
            /\ (Unloaded(objs[o]) /\ objs[o].attrs["api_id"] # None /\ f # "api_id") =>
                  /\ call'.reqs = <<Req("GET", objs[o].attrs["api_id"][2], FALSE, EmptyDict)>>
                  /\ call'.raised \notin TransportErrors => objs'[o].has_data
            /\ (~Unloaded(objs[o]) \/ f = "api_id") => call'.reqs = <<>>]_vars

\* A lazy entity's read has just issued its one GET and returned.
C1_Witness ==
    /\ call.op = "read" /\ call.raised = "none" /\ Len(call.reqs) = 1
    /\ objs[call.o].lazy /\ objs[call.o].has_data


\* The GET of resource id, as fetch() issues it.
GetOf(id) == Req("GET", id[2], FALSE, EmptyDict)
\* The attributes an entity takes from the service's representation resp.
Absorbed(e, resp, f) == IF f \in DOMAIN resp THEN ToInternalValue(f, resp[f]) ELSE e.attrs[f]

\* C2: assigning a declared field other than the identifier on a lazy entity
\* that has not loaded fetches first: when the assignment is applied the one
\* request was the GET, the field holds the written value and every other
\* field of the response holds the fetched value; when the fetch raises the
\* assignment is not applied.  Assigning the identifier issues no request.
C2_FetchBeforeAssign ==
    [][\A o \in Objs, f \in Fields : \A v \in UserVals(f) :
         (IsCall("assign", o) /\ Assign(o, f, v)) =>
            IF Unloaded(objs[o]) /\ f # "api_id"
            THEN /\ call'.raised = "none" =>
                      /\ call'.reqs = <<GetOf(objs[o].attrs["api_id"])>>
                      /\ objs'[o].has_data
                      /\ objs'[o].attrs[f] = v
                      /\ \A h \in Fields \ {f} :
                            objs'[o].attrs[h] =
                               Absorbed(objs[o], Representation(srv, objs[o].attrs["api_id"][2]), h)
                 /\ call'.raised # "none" => objs' = objs
            ELSE /\ call'.reqs = <<>>
                 /\ objs'[o] = [objs[o] EXCEPT !.attrs[f] = v]]_vars

\* An assignment to a lazy entity fetched first, and the written value differs
\* from the value the service holds.
C2_Witness ==
    /\ call.op = "assign" /\ call.raised = "none" /\ Len(call.reqs) = 1
    /\ objs[call.o].lazy /\ objs[call.o].has_data
    /\ objs[call.o].attrs["name"] = Str(2)
    /\ srv[objs[call.o].attrs["api_id"][2]].data["name"] = Str(1)
    /\ srvOmits = {}

\* C3: when a collection's create raises (the remote create failed, or any
\* step before it), the collection is unchanged; the member is appended only
\* when create returned.
C3_FailedCreateNotAppended ==
    [][call'.op = "coll_create" =>
         IF call'.raised # "none" THEN coll' = coll
         ELSE coll' = [coll EXCEPT !.entities = Append(coll.entities, call'.o)]]_vars

\* The POST of a collection's create has just failed.
C3_Witness ==
    /\ call.op = "coll_create" /\ call.raised \in TransportErrors
    /\ call.reqs # <<>> /\ call.reqs[Len(call.reqs)].verb = "POST"
    /\ coll.entities = <<>>

\* C4: delete() without the confirmation argument, or with it false, raises
\* and issues no request, whatever the entity's identifier and laziness.
C4_DeleteNeedsConfirmation ==
    [][\A o \in Objs, kw \in {"absent", "false"} :
         (IsCall("delete", o) /\ DoDelete(o, kw)) =>
            /\ call'.raised # "none"
            /\ call'.reqs = <<>>
            /\ srv' = srv /\ objs' = objs]_vars

\* delete() was refused for lack of confirmation on an entity the service holds.
C4_Witness ==
    /\ call.op = "delete" /\ call.raised = "NotConfirmed"
    /\ objs[call.o].attrs["api_id"] # None
    /\ srv[objs[call.o].attrs["api_id"][2]].exists


\* The wire form of field f of entity e, None when e has no such attribute.
Wire(e, f) == ToRepresentation(f, IF e.attrs[f] = Unset THEN None ELSE e.attrs[f])
NonTimestamp == {f \in Fields : Kind(f) # "timestamp"}

\* C5, as stated: two entities compare equal exactly when their non-timestamp
\* fields are identical, whatever their timestamps are, set or unset.
C5_EqualIgnoringTimestamps ==
    [][\A a, b \in Objs :
         (IsCall("eq", a) /\ call'.raised = "none" /\ DoEq(a, b)) =>
            (call'.ret = Bool(TRUE)
               <=> \A f \in NonTimestamp : Wire(objs'[a], f) = Wire(objs'[b], f))]_vars

\* C6: after a successful create() on an entity that had no identifier, and
\* after every later successful save of it, the identifier is set and a fresh
\* entity built with that identifier and fetched compares equal to it.
C6_CreatedEqualsFetched ==
    (call.op \in {"create", "save", "coll_create"} /\ call.raised = "none") =>
        LET e == objs[call.o]
            fresh == Fetch(Construct(e.attrs["api_id"], FALSE, EmptyDict), "ok")
        IN /\ e.attrs["api_id"] # None
           /\ fresh.raised = "none"
           /\ Eq(<<e, fresh.e>>, 1, 2, "ok", "ok").r.ret = Bool(TRUE)
           /\ Eq(<<fresh.e, e>>, 1, 2, "ok", "ok").r.ret = Bool(TRUE)

\* The entity was created, then modified and saved; a handle built with its
\* identifier has been fetched since and has just compared equal to it.
C6_Witness ==
    /\ call.op = "eq" /\ call.raised = "none" /\ call.ret = Bool(TRUE)
    /\ call.o = 1 /\ objs[2].alive /\ objs[2].has_data
    /\ objs[1].attrs["api_id"] = objs[2].attrs["api_id"]
    /\ objs[1].attrs["updated_on"] = Dt(2)
    /\ objs[2].attrs["updated_on"] = Dt(2)
    /\ objs[1].attrs["name"] = Str(2)


\* The requests of a call are the one write request `verb`.
OneWrite(reqs, verb) == Len(reqs) = 1 /\ reqs[1].verb = verb
\* The requests of a call on a lazy entity that had not loaded and whose
\* serialization fetched first: the GET alone when it failed (and then nothing
\* changed), or the GET and then the one write request `verb`.
FetchedThenWrote(o, verb) ==
    /\ call'.reqs # <<>>
    /\ call'.reqs[1] = GetOf(objs[o].attrs["api_id"])
    /\ \/ /\ Len(call'.reqs) = 1
          /\ call'.raised \in TransportErrors
          /\ objs' = objs /\ srv' = srv
       \/ /\ Len(call'.reqs) = 2
          /\ call'.reqs[2].verb = verb

\* C7, as stated: create() on an entity whose identifier is set issues no
\* POST; with update false it raises and changes nothing; with update true it
\* issues one PUT.
C7_CreateWithIdPutsOnce ==
    [][\A o \in Objs, u \in BOOLEAN :
         (IsCall("create", o) /\ objs[o].attrs["api_id"] # None /\ DoCreate(o, u)) =>
            /\ Writes(call'.reqs, {"POST"}) = {}
            /\ ~u => (call'.raised # "none" /\ call'.reqs = <<>>
                        /\ objs' = objs /\ srv' = srv)
            /\ u => Cardinality(Writes(call'.reqs, {"PUT"})) = 1]_vars

\* C7, amended: create() on an entity whose identifier is set issues no POST;
\* with update false it raises and changes nothing; with update true it does
\* what save() does: one PUT, which on a lazy entity that has not loaded
\* follows the GET of its serialization and is not issued when that GET fails.
C7_CreateWithIdSaves ==
    [][\A o \in Objs, u \in BOOLEAN :
         (IsCall("create", o) /\ objs[o].attrs["api_id"] # None /\ DoCreate(o, u)) =>
            /\ Writes(call'.reqs, {"POST", "PATCH"}) = {}
            /\ ~u => (call'.raised = "AlreadyExists" /\ call'.reqs = <<>>
                        /\ objs' = objs /\ srv' = srv)
            /\ u => IF Unloaded(objs[o]) THEN FetchedThenWrote(o, "PUT")
                    ELSE OneWrite(call'.reqs, "PUT")]_vars

\* create(update=True) on an entity with an identifier has just issued its PUT.
C7_Witness ==
    /\ call.op = "create" /\ call.raised = "none"
    /\ call.reqs # <<>> /\ call.reqs[Len(call.reqs)].verb = "PUT"

\* C8, as stated: save() without identifier raises without a request when
\* create is false and issues exactly one POST, no PUT or PATCH, when create
\* is true; with an identifier it issues exactly one write request, PATCH
\* when patch is true and PUT otherwise.
C8_SaveWritesOnce ==
    [][\A o \in Objs, a \in SaveArgs :
         (IsCall("save", o) /\ DoSave(o, a[1], a[2], a[3])) =>
            IF objs[o].attrs["api_id"] = None
            THEN IF a[1]
                 THEN /\ Cardinality(Writes(call'.reqs, {"POST"})) = 1
                      /\ Writes(call'.reqs, {"PUT", "PATCH"}) = {}
                 ELSE call'.raised # "none" /\ call'.reqs = <<>>
            ELSE /\ Cardinality(Writes(call'.reqs, {"POST", "PUT", "PATCH"})) = 1
                 /\ Writes(call'.reqs, {IF a[2] THEN "PATCH" ELSE "PUT"}) # {}]_vars

\* C8, amended: as stated for every entity that is not lazy or has loaded,
\* where the write request is the call's only request.  On a lazy entity that
\* has not loaded, serialization fetches first: without identifier (create
\* true) that fetch raises and no request is issued; with an identifier the
\* GET is issued and, unless it fails, is followed by the one write request.
C8_SaveWritesOnceLoaded ==
    [][\A o \in Objs, a \in SaveArgs :
         (IsCall("save", o) /\ DoSave(o, a[1], a[2], a[3])) =>
            IF objs[o].attrs["api_id"] = None
            THEN IF ~a[1]
                 THEN /\ call'.raised = "NotCreated" /\ call'.reqs = <<>>
                      /\ objs' = objs /\ srv' = srv
                 ELSE IF Unloaded(objs[o])
                      THEN /\ call'.raised = "ApiIdNone" /\ call'.reqs = <<>>
                           /\ objs' = objs /\ srv' = srv
                      ELSE OneWrite(call'.reqs, "POST")
            ELSE IF Unloaded(objs[o])
                 THEN FetchedThenWrote(o, IF a[2] THEN "PATCH" ELSE "PUT")
                 ELSE OneWrite(call'.reqs, IF a[2] THEN "PATCH" ELSE "PUT")]_vars

\* save(patch=True) has just issued its PATCH and returned.
C8_Witness ==
    /\ call.op = "save" /\ call.raised = "none"
    /\ Len(call.reqs) = 1 /\ call.reqs[1].verb = "PATCH"

\* C9: fetch() without identifier raises and issues no request; when the GET
\* fails the transport's error is what fetch() raises and the entity is as it
\* was before, so that a lazy entity that had not loaded fetches again on its
\* next read of a field.
C9_FailedFetchChangesNothing ==
    [][/\ \A o \in Objs :
            (IsCall("fetch", o) /\ DoFetchCall(o)) =>
               /\ objs[o].attrs["api_id"] = None =>
                     /\ call'.raised = "ApiIdNone" /\ call'.reqs = <<>>
                     /\ objs' = objs
               /\ objs[o].attrs["api_id"] # None =>
                     /\ call'.reqs = <<GetOf(objs[o].attrs["api_id"])>>
                     /\ call'.raised \in TransportErrors \cup {"none"}
                     /\ call'.raised = "StatusError" => ~srv[objs[o].attrs["api_id"][2]].exists
                     /\ call'.raised # "none" => objs' = objs
       /\ \A o \in Objs, f \in Fields \ {"api_id"} :
            (/\ call.op = "fetch" /\ call.o = o /\ call.raised \in TransportErrors
             /\ Unloaded(objs[o])
             /\ IsCall("read", o) /\ Read(o, f)) => call'.reqs = <<GetOf(objs[o].attrs["api_id"])>>]_vars

\* The GET of fetch() has just failed on a lazy entity, which is still unloaded.
C9_Witness ==
    /\ call.op = "fetch" /\ call.raised \in TransportErrors /\ Len(call.reqs) = 1
    /\ Unloaded(objs[call.o])

\* C10: after a successful save, create or fetch every declared field of the
\* service's response holds the value parsed from the response (a linked
\* entity the session assigned is replaced by the one built from the response)
\* and every declared field the response lacks keeps its local value.
C10_ResponseAbsorbed ==
    [][(call'.op \in {"save", "create", "fetch", "coll_create"} /\ call'.raised = "none") =>
         LET o == call'.o
             id == objs'[o].attrs["api_id"]
             resp == Representation(srv', id[2])
         IN /\ id # None
            /\ \A f \in Fields :
                  IF f \in DOMAIN resp
                  THEN /\ objs'[o].attrs[f] = ToInternalValue(f, resp[f])
                       /\ Kind(f) = "linked" => objs'[o].attrs[f][1] = "lazy"
                  ELSE objs'[o].attrs[f] =
                          (IF call'.op = "coll_create" /\ f = BacklinkProperty
                           THEN Backlink ELSE objs[o].attrs[f])]_vars

\* A save has returned: the linked entity the session had assigned is now the
\* one built from the response, and the name, which the response lacks, is
\* still the local one.
C10_Witness ==
    /\ call.op = "save" /\ call.raised = "none"
    /\ srvOmits = {"name"}
    /\ objs[call.o].attrs["name"] = Str(2)
    /\ objs[call.o].attrs["workspace"] = Lazy(1)
    /\ objs[call.o].attrs["updated_on"] # None


\* The reverse-relation collections among the declared fields.
ReverseRelations == {f \in Fields : Kind(f) = "linked_many"}
WriteVerbs == {"POST", "PUT", "PATCH"}
\* The entity as create()/save() serializes it: a collection's create has
\* assigned the backlink by then.
AsSerialized(o) ==
    IF call'.op = "coll_create"
    THEN [objs[o] EXCEPT !.attrs[BacklinkProperty] = Backlink]
    ELSE objs[o]

\* C11, as stated: the body of every write request of create() and save()
\* omits the timestamp fields, the reverse-relation collections and every
\* field whose value is None, and holds every other declared field in wire
\* form.
C11_WritePayloadOmitsServerFields ==
    [][\A o \in Objs :
         (call'.op \in {"create", "save", "coll_create"} /\ call'.o = o /\ ~Unloaded(objs[o])) =>
            \A i \in Writes(call'.reqs, WriteVerbs) :
               LET body == call'.reqs[i].body
                   e == AsSerialized(o)
               IN \A f \in Fields :
                     IF Kind(f) = "timestamp" \/ f \in ReverseRelations \/ Wire(e, f) = None
                     THEN f \notin DOMAIN body
                     ELSE f \in DOMAIN body /\ body[f] = Wire(e, f)]_vars


\* C12: a constructor call with lazy true and any field value raises and
\* builds nothing; a lazy constructor call with an identifier alone returns,
\* sends no request, and the entity holds the identifier only, not loaded.
C12_LazyTakesNoFieldValues ==
    [][\A o \in Objs :
         IsCall("new", o) =>
            \A lazy \in BOOLEAN, id \in IdsFor(o), kw \in KwFor(o) :
               New(o, id, lazy, kw) =>
                  /\ call'.reqs = <<>>
                  /\ UNCHANGED <<srv, coll>>
                  /\ IF lazy /\ DOMAIN kw # {}
                     THEN call'.raised = "ValueError" /\ UNCHANGED objs
                     ELSE call'.raised = "none" /\ objs'[o].alive
                  /\ (lazy /\ DOMAIN kw = {}) =>
                        /\ objs'[o].lazy /\ ~objs'[o].has_data
                        /\ \A f \in Fields :
                              objs'[o].attrs[f] = IF f = "api_id" THEN id ELSE Unset]_vars
C12_Witness ==
    /\ call.op = "new" /\ call.raised = "ValueError"
    /\ ~objs[call.o].alive


C14_ReadOnlyCreateRaises ==
    [][\A o \in Objs :
         (IsCall("coll_create", o) /\ coll.read_only) =>
            /\ call'.raised = "ReadOnly"
            /\ call'.reqs = <<>>
            /\ objs'[o].attrs[BacklinkProperty] = objs[o].attrs[BacklinkProperty]
            /\ UNCHANGED <<objs, coll, srv, nextId>>]_vars
C14_Witness ==
    /\ call.op = "coll_create" /\ call.raised = "ReadOnly"
    /\ coll.read_only
    /\ objs[call.o].attrs["api_id"] = None /\ ~objs[call.o].lazy
    /\ objs[call.o].attrs[BacklinkProperty] # Backlink


\* C15: find_or_create returns the first member, in collection order, whose
\* attribute matches, creating nothing and leaving the collection as it was;
\* with no match and a default object it persists the default through the
\* collection's create, appends it and returns it (or raises what that create
\* raises, the collection unchanged); with no match and no default it raises
\* and the collection is unchanged.
C15_FindOrCreate ==
    [][\A d \in {0} \cup Objs :
         IsCall("find_or_create", d) =>
            \A v \in UserVals("name") :
               DoFindOrCreate(d, v) =>
                  LET ents == coll.entities
                      known(i) == ~Unloaded(objs[ents[i]])
                      pre(i) == objs[ents[i]].attrs["name"]
                      post(i) == objs'[ents[i]].attrs["name"]
                      noMatch == \A i \in DOMAIN ents : known(i) /\ pre(i) # v
                      posts == Writes(call'.reqs, {"POST"})
                  IN /\ \A i \in DOMAIN ents :
                           (known(i) /\ pre(i) = v /\ \A j \in 1..(i - 1) : known(j) /\ pre(j) # v) =>
                              /\ call'.raised = "none" /\ call'.ret = Ref(ents[i])
                              /\ call'.reqs = <<>>
                              /\ UNCHANGED <<objs, coll, srv, nextId>>
                     /\ (noMatch /\ d # 0) =>
                           /\ Writes(call'.reqs, {"PUT", "PATCH"}) = {}
                           /\ IF call'.raised = "none"
                              THEN /\ call'.ret = Ref(d)
                                   /\ coll' = [coll EXCEPT !.entities = Append(ents, d)]
                                   /\ Cardinality(posts) = 1
                                   /\ objs'[d].attrs["api_id"] = Id(nextId)
                                   /\ srv'[nextId].exists
                                   /\ objs'[d].attrs[BacklinkProperty] = Lazy(Backlink[2])
                              ELSE UNCHANGED <<coll, srv, nextId>> /\ call'.ret = None
                           /\ (~coll.read_only /\ objs[d].attrs["api_id"] = None /\ ~Unloaded(objs[d])) =>
                                 Cardinality(posts) = 1
                     /\ (noMatch /\ d = 0) =>
                           /\ call'.raised = "NotFound" /\ call'.reqs = <<>>
                           /\ UNCHANGED <<objs, coll, srv, nextId>>
                     /\ (call'.raised = "none" /\ coll' = coll) =>
                           /\ \E i \in DOMAIN ents :
                                 /\ call'.ret = Ref(ents[i])
                                 /\ post(i) = v
                                 /\ \A j \in 1..(i - 1) : post(j) \notin {v, Unset}
                           /\ Writes(call'.reqs, WriteVerbs) = {}
                           /\ UNCHANGED <<srv, nextId>>
                     /\ call'.raised # "none" => UNCHANGED <<coll, srv, nextId>>]_vars
C15_Witness ==
    /\ call.op = "find_or_create" /\ call.raised = "none"
    /\ coll.entities = <<2, 1>>
    /\ objs[1].attrs["name"] = objs[2].attrs["name"]
    /\ call.ret = Ref(2) /\ call.reqs = <<>>


\* C16, as stated: for every kind of field descriptor and every valid value,
\* None and the empty list included, parsing the representation of the value
\* returns (raises nothing) and yields a value equivalent to it.
C16_FieldRoundTrip ==
    probe.stage = "back" =>
        probe.raised = "none" /\ Equivalent(probe.v, probe.cur)


\* C17, as stated: parsing a JSON data object never fails; it yields the
\* specialization registered for the type tag, and for a tag with no
\* registered specialization a base Data entity, with the tag, the name, the
\* metadata and the payload of the object.
C17_ParseDispatchesOnTypeTag ==
    probe.stage = "parsed" =>
        /\ probe.raised = "none"
        /\ probe.d.type = probe.w["type"]
        /\ probe.d.cls = (IF \E c \in DataClasses : DataTypeOf(c) = probe.w["type"]
                          THEN CHOOSE c \in DataClasses : DataTypeOf(c) = probe.w["type"]
                          ELSE "Data")
        /\ probe.d.cls = "Data" =>
              /\ probe.d.name = probe.w["name"]
              /\ "metadata" \in DOMAIN probe.w => probe.d.metadata = probe.w["metadata"]
              /\ "data" \in DOMAIN probe.w => probe.d.data = Bytes(probe.w["data"][2])


\* C18, as stated: for every data entity d of any class, from_json(to_json(d))
\* returns, and the entity it returns serializes to the same JSON object as d.
C18_DataJsonRoundTrip ==
    probe.stage = "back" =>
        probe.raised = "none" /\ DataToJson(probe.d) = probe.w

\* The value of the metadata-backed key p that the claim requires, given the
\* keyword arguments kw and the metadata mapping supplied; the format a class
\* assigns by itself counts as its default.
RequiredMeta(cls, p, kw, supplied) ==
    IF p \in DOMAIN kw THEN kw[p]
    ELSE IF ~supplied.null /\ p \in DOMAIN supplied.d THEN supplied.d[p]
    ELSE IF p = "format" /\ AssignedFormat(cls) # {} THEN Only(AssignedFormat(cls))
    ELSE Proxies(cls)[p]

\* C19, as stated: after a data entity is constructed or parsed, its metadata
\* holds every metadata-backed key its class declares, with the keyword
\* argument if one was supplied, else the value of the supplied metadata
\* mapping, else the declared default; a supplied format is preserved.
C19_MetadataPrecedence ==
    /\ (probe.stage = "built" /\ probe.raised = "none") =>
          \A p \in DOMAIN Proxies(probe.d.cls) :
             /\ p \in DOMAIN probe.d.metadata.d
             /\ probe.d.metadata.d[p] =
                   RequiredMeta(probe.d.cls, p, probe.kw,
                                IF "metadata" \in DOMAIN probe.kw THEN probe.kw["metadata"]
                                ELSE NullMeta)
    /\ (probe.stage \in {"parsed", "back"} /\ probe.raised = "none") =>
          \A p \in DOMAIN Proxies(probe.d.cls) :
             /\ p \in DOMAIN probe.d.metadata.d
             /\ probe.d.metadata.d[p] =
                   RequiredMeta(probe.d.cls, p, EmptyDict,
                                IF "metadata" \in DOMAIN probe.w THEN probe.w["metadata"]
                                ELSE NullMeta)


C21_SetLinkSharingReturnsStatus ==
    [][\A o \in Objs :
         IsCall("set_link_sharing", o) =>
            \A arg \in ShareArgs("set_link_sharing"), g \in Outcomes :
            \A resp \in ShareResponses("set_link_sharing", arg) :
               (/\ call' = Call("set_link_sharing", o,
                                Sharing(objs[o], "set_link_sharing", arg, g, resp))
                /\ call'.raised = "none") =>
                  /\ call'.ret \in {Bool(TRUE), Bool(FALSE)}
                  /\ call'.ret = Sharing(objs[o], "get_link_sharing", None, g, resp).ret]_vars


\* C22, as stated: a request whose token is rejected as expired is retried
\* once and no more, so no request chain sends more than two HTTP requests.
C22_AtMostTwoAttempts ==
    gf.pc # "idle" => \A i \in DOMAIN gf.frames : gf.frames[i] <= 2


\* Several of the searched entities match the lookup that has been made.
Several(items) ==
    probe.stage = "done" /\ Cardinality(Matches(items, probe.key)) > 1

\* C23, as stated: a lookup that several entities match either raises an
\* explicit error, or returns the first of them and emits a warning.
C23_AmbiguityRaisesOrWarns ==
    Several(probe.items) /\ (probe.op = "sync" => probe.checksum) =>
       \/ probe.res.raised = "RuntimeError"
       \/ /\ probe.res.ret = First(Matches(probe.items, probe.key))
          /\ "multiple" \in probe.res.warned

\* C23, amended: find_workspace_by_name raises when several workspaces match;
\* the dataset sync returns the first of several revisions, or creates the
\* revision under the first of several datasets, with a warning;
\* LinkedEntityCollection.find returns the first of several members with no
\* error and no warning.
C23_AmbiguityByLookup ==
    /\ (Several(probe.items) /\ probe.op = "find_workspace_by_name") =>
          probe.res = Found("RuntimeError", 0, {}, FALSE, 0)
    /\ (Several(probe.items) /\ probe.op = "sync" /\ probe.checksum) =>
          probe.res = Found("none", First(Matches(probe.items, probe.key)),
                            {"multiple"}, FALSE, 0)
    /\ (/\ Several(probe.others) /\ probe.op = "sync" /\ probe.checksum
        /\ Matches(probe.items, probe.key) = {}) =>
          /\ probe.res.warned = {"multiple"}
          /\ probe.res.raised = "none" =>
                probe.res.under = First(Matches(probe.others, probe.key))
    /\ (Several(probe.items) /\ probe.op = "find") =>
          probe.res = Found("none", First(Matches(probe.items, probe.key)),
                            {}, FALSE, 0)

C23_Witness ==
    /\ Several(probe.items) /\ probe.op = "find"
    /\ probe.res.ret = First(Matches(probe.items, probe.key))
    /\ probe.res.warned = {}


\* C24: a successful create through the collection has sent one POST whose
\* body carries the owner's identifier in the backlink field, whatever the
\* member's backlink field held before; the member then has an identifier,
\* is the last element of the collection after the members it held, in their
\* order, and is the value returned.
C24_CreateAppendsWithBacklink ==
    [][\A o \in Objs :
         (IsCall("coll_create", o) /\ call'.raised = "none") =>
            LET posts == Writes(call'.reqs, {"POST"})
            IN /\ Cardinality(posts) = 1
               /\ \A i \in posts :
                     /\ BacklinkProperty \in DOMAIN call'.reqs[i].body
                     /\ call'.reqs[i].body[BacklinkProperty] = Id(Backlink[2])
               /\ objs'[o].attrs["api_id"] \notin {None, Unset}
               /\ objs'[o].attrs["api_id"] = Id(nextId)
               /\ coll'.entities = Append(coll.entities, o)
               /\ Len(coll'.entities) = Len(coll.entities) + 1
               /\ call'.ret = Ref(o)]_vars
C24_Witness ==
    /\ call.op = "coll_create" /\ call.raised = "none"
    /\ coll.entities = <<2, 1>>
    /\ call.ret = Ref(1)
    /\ objs[1].attrs["api_id"] # None

\* C28: a create through the collection that fails remotely has assigned the
\* owner to the member's backlink field and leaves it so; the member's
\* identifier is still unset, and the collection holds what it held.
C28_FailedCreateKeepsBacklink ==
    [][\A o \in Objs :
         (/\ IsCall("coll_create", o) /\ call'.raised \in TransportErrors
          /\ Writes(call'.reqs, {"POST"}) # {}) =>
            /\ objs'[o].attrs[BacklinkProperty] = Backlink
            /\ objs'[o].attrs["api_id"] = None
            /\ \A f \in Fields \ {BacklinkProperty} : objs'[o].attrs[f] = objs[o].attrs[f]
            /\ UNCHANGED <<coll, srv, nextId>>
            /\ \A i \in DOMAIN coll'.entities : coll'.entities[i] # o]_vars
C28_Witness ==
    /\ call.op = "coll_create" /\ call.raised \in TransportErrors
    /\ Writes(call.reqs, {"POST"}) # {}
    /\ objs[call.o].attrs[BacklinkProperty] = Backlink
    /\ objs[call.o].attrs["api_id"] = None
    /\ \A i \in DOMAIN coll.entities : coll.entities[i] # call.o


\* C25, as stated: assigning a typed view returns normally, leaves the entries
\* of every other type as they were, in order, and makes the view read back as
\* the assigned entries; a change to a list a getter returned leaves the
\* revision's data as it was.
C25_TypedViewReplaces ==
    [][/\ \A view \in Views, value \in EntryLists(2) :
            (probe'.op = "set" /\ probe'.view = view /\ DoSetView(view, value)) =>
               /\ probe'.raised = "none"
               /\ NotOfType(DataOf(probe'), ViewType(view))
                     = NotOfType(DataOf(probe), ViewType(view))
               /\ TypedView(probe', view).raised = "none"
               /\ TypedView(probe', view).heap[TypedView(probe', view).got] = value
       /\ \A entry \in EntryPool, clear \in BOOLEAN :
            (probe'.op = "mutate" /\ DoMutate(entry, clear) /\ probe.data # 0) => DataOf(probe') = DataOf(probe)]_vars

\* C25, amended: on a revision whose data is a list, assigning a typed view
\* makes data the entries of every other type, in their order, followed by
\* the assigned entries, and the view then reads back as the assigned
\* entries of the view's type (all of them when each has that type); on a
\* revision whose data is None the assignment raises TypeError and data stays
\* None; a getter returns a list of its own, so a change to it leaves the
\* revision's data as it was.
C25_TypedViewReplacesTyped ==
    [][/\ \A view \in Views, value \in EntryLists(2) :
            (probe'.op = "set" /\ probe'.view = view /\ DoSetView(view, value)) =>
               IF probe.data = 0
               THEN probe'.raised = "TypeError" /\ probe'.data = 0
               ELSE /\ probe'.raised = "none"
                    /\ DataOf(probe') = NotOfType(DataOf(probe), ViewType(view)) \o value
                    /\ LET got == TypedView(probe', view)
                       IN /\ got.raised = "none"
                          /\ got.heap[got.got] = OfType(value, ViewType(view))
                          /\ (\A i \in DOMAIN value : value[i][1] = ViewType(view)) =>
                                got.heap[got.got] = value
       /\ \A view \in Views :
            (probe'.op = "get" /\ probe'.view = view /\ DoGetView(view) /\ probe.data # 0) =>
               /\ probe'.got # probe'.data
               /\ probe'.data = probe.data /\ DataOf(probe') = DataOf(probe)
       /\ \A entry \in EntryPool, clear \in BOOLEAN :
            (probe'.op = "mutate" /\ DoMutate(entry, clear) /\ probe.data # 0) =>
               DataOf(probe') = DataOf(probe)]_vars
C25_Witness ==
    /\ probe.op = "set" /\ probe.view = "image_data" /\ probe.raised = "none"
    /\ DataOf(probe) = <<(<<"text", 1>>), (<<"image", 2>>)>>


\* The step ends a call of publish whose trap was running.
PublishEnds == Len(disp'.frames) < Len(disp.frames)
Forwarded == disp'.forwards = disp.forwards + 1
TopFrame == disp.frames[Len(disp.frames)]

\* C26, as stated: a publish forwards the data exactly when its trap did not
\* call suppress_display; while a trap runs the global trap is cleared and a
\* display made inside it goes to the wrapped publisher untrapped; when the
\* publish ends, by return or by exception, the global trap is the one
\* installed before the call.
C26_PublishForwardsUnlessSuppressed ==
    [][/\ PublishEnds =>
            /\ Forwarded <=> ~TopFrame.suppressed
            /\ disp'.trap = TopFrame.before
       /\ disp.frames # <<>> =>
            /\ disp.trap = 0
            /\ Publish => (Forwarded /\ disp'.frames = disp.frames)]_vars

\* C26, amended: a publish whose trap returns forwards the data exactly when
\* the trap did not call suppress_display, and a publish whose trap raises
\* forwards nothing; while a trap runs the global trap is cleared and a
\* display made inside it goes to the wrapped publisher untrapped; when the
\* publish ends, by return or by exception, the global trap is the one
\* installed before the call.
C26_PublishForwardsWhenTrapReturns ==
    [][/\ PublishEnds =>
            /\ disp'.last.how = "returned" => (Forwarded <=> ~TopFrame.suppressed)
            /\ disp'.last.how = "raised" => ~Forwarded
            /\ disp'.trap = TopFrame.before
            /\ disp'.trap # 0
       /\ disp.frames # <<>> =>
            /\ disp.trap = 0
            /\ Publish => (Forwarded /\ disp'.frames = disp.frames)
       /\ (disp.frames = <<>> /\ disp.trap = 0 /\ Publish) =>
            (Forwarded /\ disp'.trap = 0)]_vars
C26_Witness ==
    /\ disp.pc = "ready" /\ disp.frames = <<>>
    /\ disp.last = Ended("raised", FALSE, TRUE)
    /\ disp.trap # 0 /\ disp.forwards > 0


\* C27: a delete that succeeds leaves every object and the collection as
\* they were (the identifier and the field values are kept, a collection that
\* holds the entity still holds it); the create() that follows it on the same
\* object raises 'already exists', sends no request and changes nothing.
C27_DeleteKeepsLocalState ==
    [][\A o \in Objs :
         /\ (IsCall("delete", o) /\ call'.raised = "none") =>
               /\ Cardinality(Writes(call'.reqs, {"DELETE"})) = 1
               /\ objs[o].attrs["api_id"] # None
               /\ UNCHANGED <<objs, coll>>
         /\ (/\ call.op = "delete" /\ call.o = o /\ call.raised = "none"
             /\ IsCall("create", o) /\ DoCreate(o, FALSE)) =>
               /\ call'.raised = "AlreadyExists"
               /\ call'.reqs = <<>>
               /\ UNCHANGED <<objs, coll, srv, nextId>>]_vars
C27_Witness ==
    /\ call.op = "create" /\ call.raised = "AlreadyExists" /\ call.reqs = <<>>
    /\ objs[call.o].attrs["api_id"] = Id(1) /\ ~srv[1].exists
    /\ coll.entities = <<call.o>>


\* C29: on a lazy entity that has loaded, a read of a declared field the
\* loaded representation did not carry raises the unknown-attribute error,
\* sends no request and changes nothing; a non-lazy entity holds None in
\* every declared field it was constructed without, and a read of a declared
\* field of it returns the field's value, raising nothing and sending nothing.
C29_MissingFieldAfterLoad ==
    [][\A o \in Objs :
         /\ \A f \in Fields :
               (IsCall("read", o) /\ Read(o, f)) =>
                  /\ (objs[o].lazy /\ objs[o].has_data /\ objs[o].attrs[f] = Unset) =>
                        /\ call'.raised = "AttributeError"
                        /\ call'.reqs = <<>>
                        /\ UNCHANGED <<objs, srv>>
                  /\ ~objs[o].lazy =>
                        /\ call'.raised = "none"
                        /\ call'.reqs = <<>>
                        /\ objs[o].attrs[f] # Unset
                        /\ \A g \in Outcomes : GetAttr(objs[o], f, g).ret = objs[o].attrs[f]
                        /\ UNCHANGED <<objs, srv>>
         /\ (IsCall("new", o) /\ call'.raised = "none") =>
               \A id \in IdsFor(o), kw \in KwFor(o) :
                  New(o, id, FALSE, kw) =>
                     \A f \in Fields \ (DOMAIN kw \cup {"api_id"}) :
                        /\ objs'[o].attrs[f] = None
                        /\ \A g \in Outcomes :
                              GetAttr(objs'[o], f, g) = Res(objs'[o], "none", <<>>, None)]_vars
C29_Witness ==
    /\ call.op = "read" /\ call.raised = "AttributeError" /\ call.reqs = <<>>
    /\ objs[call.o].lazy /\ objs[call.o].has_data
    /\ objs[call.o].attrs["name"] = Unset
    /\ "name" \in srvOmits


\* C30, as stated: once a later call of run_proxy_async has started its
\* thread, every thread of an earlier call has ended, so no two callback
\* threads poll at the same time; only the thread of the most recently
\* created proxy calls the callback; no thread calls it more than once.
C30_OneCallbackThread ==
    /\ \A t \in Threads : t < proxy.n => proxy.pc[t] = "done"
    /\ Cardinality({t \in Threads : proxy.pc[t] \in Polling}) <= 1
    /\ \A t \in Threads : proxy.pc[t] = "callback" => t = proxy.n
    /\ \A t \in Threads : proxy.calls[t] <= 1

====
